---- MODULE Spec2Model ----
(***************************************************************************)
(* The extraction orchestrators of the smithery scraper:                   *)
(*   main        smithery_scraper.py      SmitheryScraper.scrape_all_servers*)
(*   missing     rescrape_missing_servers.py      main / rescrape           *)
(*   problematic rescrape_problematic_servers.py  rescrape_server           *)
(* and the discovery of missing_servers_checker.py (mode "checker").       *)
(* A run is one process.  The incremental log (.jsonl) and the final       *)
(* artifact (.json) are files: they outlive the process, everything else   *)
(* is lost when the process is killed.                                     *)
(***************************************************************************)
EXTENDS Integers, Sequences, FiniteSets, TLC

\* ---------------------------------------------------------------- bounds
\* Longest URL list handed to the extraction workers.
MaxUrls == 2
\* Largest value of --threads explored (the code clamps it to 10).
MaxThreads == 2
\* Most listing pages with links the discovery of the checker is shown.
MaxPages == 3
\* Longest string, in tokens, the URL normalizer is given exhaustively.
MaxLen == 4
\* Most lines of a text the parameter parser is given exhaustively.
MaxLines == 4
\* Most parameter blocks of a text in the documented layout.
MaxBlocks == 2
\* Most tool pages a resource lists, before the pages of a pagination that
\* never ends.
MaxToolPages == 2
\* Most matched elements of a tool page, and most tools the text of a page
\* without elements yields.
MaxElements == 2
\* Largest max_retries the retry loop is called with on its own.
MaxRetries == 3

\* ------------------------------------------------------ program constants
\* scrape_single_server_with_browser(..., max_retries: int = 3); both
\* rescrape scripts pass max_retries=3 as well.
max_retries == 3
\* ThreadPoolExecutor(max_workers=10) of rescrape_problematic_servers.py
ProblematicWorkers == 10
\* "if page_num > 100" of the URL collection loop
PageSafetyLimit == 100
\* "if args.threads > 10: args.threads = 10", "min(threads, 10)"
MaxWorkers == 10

\* "if tool_page_num > 100" of scrape_tools_with_params
ToolPageLimit == 100

\* ------------------------------------------------------------- the site
\* The resource pages of the crawled site.  A resource is named by the slug
\* of its URL; UrlOrder is the ascending (string) order of the URLs.
UrlOrder == <<"s00", "s50", "s52", "s55">>
Urls == {UrlOrder[i] : i \in DOMAIN UrlOrder}

\* int(re.search(r'Tools\s*(\d+)', body_text).group(1)), 0 when no match:
\* the tool count the page states.
SiteDeclared(url) == IF url = "s00" THEN 0 ELSE 5

\* What scrape_tools_with_params recovers from the page: s55 yields all its
\* five tools, s52 two of five, s50 and s00 none.
ToolNames == <<"t1", "t2", "t3", "t4", "t5">>
SiteTools(url) ==
    CASE url = "s55" -> ToolNames
      [] url = "s52" -> SubSeq(ToolNames, 1, 2)
      [] OTHER -> <<>>

\* ------------------------------------------------------- pure functions
\* sorted(page_server_urls)
SortedUrls(S) == SelectSeq(UrlOrder, LAMBDA u : u \in S)

RECURSIVE ScanPages(_, _, _, _, _, _)
\* The "while True" URL collection loop of scrape_all_servers.  listing[n]
\* is the set of /server/ links of listing page n (no page: no links);
\* fail_at is the page whose page.goto raises (0: none); max_servers = 0
\* stands for None ("if max_servers and ..." treats both alike).
ScanPages(listing, fail_at, page_num, scrape_single_page, max_servers, acc) ==
    LET links == IF page_num \in DOMAIN listing THEN listing[page_num] ELSE {}
        all == acc \o SortedUrls(links)
    IN  IF page_num = fail_at \/ links = {}
        THEN acc
        ELSE IF max_servers # 0 /\ Len(all) >= max_servers
        THEN SubSeq(all, 1, max_servers)
        ELSE IF scrape_single_page \/ page_num + 1 > PageSafetyLimit
        THEN all
        ELSE ScanPages(listing, fail_at, page_num + 1, scrape_single_page,
                       max_servers, all)

\* all_server_urls of scrape_all_servers; max_pages = 0 stands for None.
CollectServerUrls(listing, fail_at, max_pages, max_servers) ==
    IF max_pages # 0
    THEN ScanPages(listing, fail_at, max_pages, TRUE, max_servers, <<>>)
    ELSE ScanPages(listing, fail_at, 1, FALSE, max_servers, <<>>)

\* scrape_server_page(page, url) when navigation succeeds: the record built
\* from the page.  Only the fields the orchestrators read are kept.
ScrapeServerPage(url) ==
    LET tools == SiteTools(url)
        total_tools == IF SiteDeclared(url) > 0 THEN SiteDeclared(url)
                       ELSE Len(tools)
    IN  [server_url |-> url, total_tools |-> total_tools, tools |-> tools]

\* SmitheryScraper.normalize_server
normalize_server(server) ==
    [server_url |-> server.server_url,
     total_tools |-> Len(server.tools),
     tools |-> server.tools]

\* The branch taken by "if tools_count == expected_tools and expected_tools
\* > 0 / elif tools_count > 0 / else" (scraper statistics and classify()).
CrawlOutcome(tools_count, expected_tools) ==
    IF tools_count = expected_tools /\ expected_tools > 0 THEN "success"
    ELSE IF tools_count > 0 THEN "partial"
    ELSE "failed"

\* The branch taken by rescrape_server of rescrape_problematic_servers.py.
ProblematicOutcome(actual_tools, expected_tools) ==
    IF actual_tools = expected_tools THEN "success"
    ELSE IF actual_tools > 0 THEN "partial"
    ELSE "failed"

\* A log file is its text, as tokens <<kind, value>>: punctuation "p", a key
\* "k", a string "s", a number "n", a list "l".
Tok(tok, kind, value) == tok[1] = kind /\ tok[2] = value
Newline == <<"p", "\n">>

\* json.dumps(server_data, ensure_ascii=False), the '\n' left out.
DumpsNoNewline(server) ==
    << <<"p", "{">>,
       <<"k", "server_url">>, <<"s", server.server_url>>,
       <<"k", "total_tools">>, <<"n", server.total_tools>>,
       <<"k", "tools">>, <<"l", server.tools>>,
       <<"p", "}">> >>

\* json.dumps(server_data, ensure_ascii=False) + '\n'
Dumps(server) ==
    << <<"p", "{">>,
       <<"k", "server_url">>, <<"s", server.server_url>>,
       <<"k", "total_tools">>, <<"n", server.total_tools>>,
       <<"k", "tools">>, <<"l", server.tools>>,
       <<"p", "}">>, Newline >>

RECURSIVE SplitLines(_, _)
\* "for line in f": the text cut after each newline; the last line may lack
\* one.  cur is the line being read.
SplitLines(text, cur) ==
    IF text = <<>> THEN (IF cur = <<>> THEN <<>> ELSE <<cur>>)
    ELSE IF Tok(Head(text), "p", "\n")
    THEN <<Append(cur, Head(text))>> \o SplitLines(Tail(text), <<>>)
    ELSE SplitLines(Tail(text), Append(cur, Head(text)))

\* line.strip() followed by json.loads(line): <<record>>, or <<>> when the
\* line is blank or json.loads raises JSONDecodeError.
Loads(line) ==
    LET text == IF line # <<>> /\ Tok(line[Len(line)], "p", "\n")
                THEN SubSeq(line, 1, Len(line) - 1) ELSE line
    IN  IF /\ Len(text) = 8
           /\ Tok(text[1], "p", "{") /\ Tok(text[8], "p", "}")
           /\ Tok(text[2], "k", "server_url") /\ text[3][1] = "s"
           /\ Tok(text[4], "k", "total_tools") /\ text[5][1] = "n"
           /\ Tok(text[6], "k", "tools") /\ text[7][1] = "l"
        THEN <<[server_url |-> text[3][2], total_tools |-> text[5][2],
                tools |-> text[7][2]]>>
        ELSE <<>>

RECURSIVE LoadAll(_)
\* The records of a sequence of lines, lines that fail to parse discarded.
LoadAll(lines) ==
    IF lines = <<>> THEN <<>>
    ELSE Loads(Head(lines)) \o LoadAll(Tail(lines))

\* The replay of the log: "for line in f: line = line.strip(); if line: try:
\* ...append(json.loads(line)) except json.JSONDecodeError".
Replay(text) == LoadAll(SplitLines(text, <<>>))

\* {s['server_url'] for s in servers}
UrlsOf(servers) == {servers[i].server_url : i \in DOMAIN servers}

\* save_to_json, the merge: the log's records whose URL is not among the
\* in-memory ones are appended to self.servers_data.
MergeFromJsonl(servers_data, servers_from_jsonl) ==
    servers_data \o
    SelectSeq(servers_from_jsonl,
              LAMBDA s : s.server_url \notin UrlsOf(servers_data))

\* [self.normalize_server(s) for s in self.servers_data]
NormalizeAll(servers) == [i \in DOMAIN servers |-> normalize_server(servers[i])]

RECURSIVE Uniq(_, _)
\* load_urls: "preserve order, remove duplicates"
Uniq(raw, seen) ==
    IF raw = <<>> THEN <<>>
    ELSE IF Head(raw) \in seen THEN Uniq(Tail(raw), seen)
    ELSE <<Head(raw)>> \o Uniq(Tail(raw), seen \cup {Head(raw)})

\* urls = load_urls(args.input); if args.max: urls = urls[: args.max]
\* (max = 0 stands for None).
load_urls(data, max) ==
    LET uniq == Uniq(data, {})
    IN  IF max # 0 /\ max < Len(uniq) THEN SubSeq(uniq, 1, max) ELSE uniq

\* The entry of problematic_servers.json for a resource: the declared count
\* of an earlier crawl and the number of tools that crawl extracted.
ProblematicEntry(url) ==
    [server_url |-> url, total_tools |-> SiteDeclared(url), actual_tools |-> 0]

\* ---------------------------------------------------- the URL normalizer
\* A string is the sequence of its tokens: the words below, and the
\* characters ":", "/", "?", "#", " " and "[".  No word is the beginning of
\* another, so two strings are equal exactly when their tokens are.
\* Every word is made of scheme characters and begins with a letter.
Words == {"https", "smithery.ai", "server", "foo"}
Tokens == Words \cup {":", "/", "?", "#", " ", "["}

\* BASE_URL = "https://smithery.ai"
BASE_URL == <<"https", ":", "/", "/", "smithery.ai">>

\* str.find for a set of characters: the first position holding one of
\* them, 0 when there is none.
Find(str, chars) ==
    IF \E i \in DOMAIN str : str[i] \in chars
    THEN CHOOSE i \in DOMAIN str :
             /\ str[i] \in chars
             /\ \A j \in 1 .. i - 1 : str[j] \notin chars
    ELSE 0

\* str[from:]
From(str, from) == SubSeq(str, from, Len(str))

\* str[:to], to excluded
Before(str, to) == SubSeq(str, 1, to - 1)

\* str.startswith(prefix)
StartsWith(str, prefix) ==
    Len(str) >= Len(prefix) /\ SubSeq(str, 1, Len(prefix)) = prefix

RECURSIVE LStrip(_, _)
\* str.lstrip(c)
LStrip(str, c) ==
    IF str # <<>> /\ Head(str) = c THEN LStrip(Tail(str), c) ELSE str

\* The path is taken as it is.
KeepSlash(str, c) == str

RECURSIVE RStrip(_, _)
\* str.rstrip(c)
RStrip(str, c) ==
    IF str # <<>> /\ str[Len(str)] = c
    THEN RStrip(Before(str, Len(str)), c) ELSE str

\* url.strip(): the whitespace at both ends is removed.
Strip(str) == LStrip(RStrip(str, " "), " ")

\* urllib.parse.urlsplit(url): the scheme is what stands before the first
\* ":" when that is made of scheme characters only; the netloc follows a
\* leading "//" up to the next "/", "?" or "#"; the fragment follows the
\* first "#", the query the first "?" before it.  A netloc with "[" and
\* no "]" raises ValueError("Invalid IPv6 URL").
urlsplit(url) ==
    LET colon == Find(url, {":"})
        has_scheme == colon > 1 /\ \A j \in 1 .. colon - 1 : url[j] \in Words
        rest == IF has_scheme THEN From(url, colon + 1) ELSE url
        has_netloc == StartsWith(rest, <<"/", "/">>)
        after == From(rest, 3)
        delim == Find(after, {"/", "?", "#"})
        netloc == IF ~has_netloc THEN <<>>
                  ELSE IF delim = 0 THEN after ELSE Before(after, delim)
        tail == IF ~has_netloc THEN rest
                ELSE IF delim = 0 THEN <<>> ELSE From(after, delim)
        hash == Find(tail, {"#"})
        nofrag == IF hash = 0 THEN tail ELSE Before(tail, hash)
        mark == Find(nofrag, {"?"})
    IN  [raises |-> \E i \in DOMAIN netloc : netloc[i] = "[",
         scheme |-> IF has_scheme THEN Before(url, colon) ELSE <<>>,
         netloc |-> netloc,
         path |-> IF mark = 0 THEN nofrag ELSE Before(nofrag, mark),
         query |-> IF mark = 0 THEN <<>> ELSE From(nofrag, mark + 1),
         fragment |-> IF hash = 0 THEN <<>> ELSE From(tail, hash + 1)]

\* urllib.parse.urlunsplit((scheme, netloc, path, "", "")) for a scheme and
\* a netloc that are not empty.
urlunsplit(scheme, netloc, path) ==
    LET url == IF path # <<>> /\ Head(path) # "/" THEN <<"/">> \o path
               ELSE path
    IN  scheme \o <<":">> \o <<"/", "/">> \o netloc \o url

\* normalize_server_url(url): [raises |-> TRUE] when urlsplit raises, else
\* the string returned.
normalize_server_url(url) ==
    IF url = <<>> THEN [raises |-> FALSE, value |-> <<>>]
    ELSE LET stripped == Strip(url)
             full == IF StartsWith(stripped, <<"/", "server", "/">>)
                     THEN BASE_URL \o stripped ELSE stripped
             parsed == urlsplit(full)
             scheme == IF parsed.scheme # <<>> THEN parsed.scheme
                       ELSE <<"https">>
             netloc == IF parsed.netloc # <<>> THEN parsed.netloc
                       ELSE <<"smithery.ai">>
             path == RStrip(parsed.path, "/")
         IN  IF parsed.raises THEN [raises |-> TRUE]
             ELSE [raises |-> FALSE,
                   value |-> urlunsplit(scheme, netloc, path)]

\* ----------------------------------------------------------------- state
VARIABLES
    mode,              \* the script: "main", "missing", "problematic"
    num_threads,       \* max_workers of the pool (args.threads)
    incremental_save,  \* SmitheryScraper.incremental_save
    phase,             \* "init", "launch", "scraping", "done", "dead"
    urls,              \* all_server_urls / urls / problematic_servers
    pc,                \* per URL: where its extraction stands
    attempt,           \* per URL: the loop variable of the retry loop
    wait_time,         \* per URL: the backoff being slept, in seconds
    server_data,       \* per URL: <<record>>, or <<>> for None
    sessions,          \* the open rendering sessions (browser + page)
    stats,             \* SmitheryScraper.stats
    stats_lock,        \* SmitheryScraper.stats_lock: holder, 0 when free
    wstats,            \* the rescrape script's own stats
    wstats_lock,       \* the rescrape script's stats_lock
    file_write_lock,   \* the lock guarding the .jsonl of the running script
    jsonl,             \* the incremental log on disk: its lines
    servers_data,      \* self.servers_data / results / rescraped_data
    artifact,          \* the final JSON document on disk
    threads,           \* args.threads as given on the command line
    listing,           \* checker: the links each listing page shows
    indicator,         \* checker: the total of the "1 / N" indicator, 0: none
    max_pages,         \* checker: args.max_pages, 0 for None
    pages,             \* checker: per listing page, how its fetch stands
    found,             \* checker: the set "urls" of the discovery
    errors,            \* checker: the pages of the error list, in order
    current_urls,      \* checker: the list the discovery returned
    raw_url,           \* normalizer: the string to normalize
    normalized,        \* normalizer: the results of its calls so far
    recon,             \* reconciliation: the inputs and the list returned
    parser,            \* parameter parser: the locals of its scan
    endless,           \* checker: whether every later listing page has links
    extractor,         \* scrape_tools_with_params: its locals and the page
    fallback,          \* parse_tools_from_text: the locals of its scan
    retry              \* scrape_single_server_with_browser with any max_retries

vars == <<mode, num_threads, incremental_save, phase, urls, pc, attempt,
          wait_time, server_data, sessions, stats, stats_lock, wstats,
          wstats_lock, file_write_lock, jsonl, servers_data, artifact,
          threads, listing, indicator, max_pages, pages, found, errors,
          current_urls, raw_url, normalized, recon, parser, endless,
          extractor, fallback, retry>>

config == <<mode, num_threads, incremental_save>>
pure == <<recon, parser>>
tail == <<extractor, fallback, retry>>
norm == <<raw_url, normalized, pure, endless, tail>>
args == <<threads, listing, indicator, max_pages, norm>>
disc == <<args, pages, found, errors, current_urls>>
locals == <<pc, attempt, wait_time, server_data>>
run == <<config, phase, threads, listing, indicator, max_pages, pages, found,
         errors, current_urls, urls, locals, sessions, stats, stats_lock,
         wstats, wstats_lock, file_write_lock, jsonl, servers_data, artifact>>

Modes == {"main", "missing", "problematic", "checker"}
Tasks == DOMAIN urls

\* The single-threaded branch of scrape_all_servers ("else" of
\* "if num_threads > 1").
SingleThreaded == mode = "main" /\ num_threads = 1

ZeroStats == [total_servers |-> 0, scraped |-> 0, success |-> 0,
              partial |-> 0, failed |-> 0, total_tools |-> 0]
ZeroWStats == [total |-> 0, completed |-> 0, success |-> 0, partial |-> 0,
               failed |-> 0, improved |-> 0]

\* The counter is raised by two.
BumpTwice(st, outcome) == [st EXCEPT ![outcome] = @ + 2]

\* stats[outcome] += 1
Bump(st, outcome) == [st EXCEPT ![outcome] = @ + 1]

\* SmitheryScraper.__init__ and the module-level set-up of the rescrape
\* scripts: empty in-memory state.
Fresh ==
    /\ urls = <<>>
    /\ pc = <<>>
    /\ attempt = <<>>
    /\ wait_time = <<>>
    /\ server_data = <<>>
    /\ sessions = {}
    /\ stats = ZeroStats
    /\ stats_lock = 0
    /\ wstats = ZeroWStats
    /\ wstats_lock = 0
    /\ file_write_lock = 0
    /\ servers_data = <<>>

\* The worker counts asked for: none, the ones explored, one above the cap.
Requested == (0 .. MaxThreads) \cup {MaxWorkers + 5}

\* The links of the listing pages the checker is shown: each listed page
\* shows links; the pages after the last one show none, or the links of the
\* last one when the listing never ends (explored for the listings of one
\* page).
CheckerLinks == {{"s00"}, {"s50"}, {"s00", "s50"}}
SiteListings == UNION {[1 .. n -> CheckerLinks] : n \in 0 .. MaxPages}

\* The tool extractor, the text parser of its fallback and the retry loop
\* taken alone have not been called.
TailAtRest == extractor = <<>> /\ fallback = <<>> /\ retry = <<>>

\* The state when the arguments are parsed.  rescrape_problematic_servers.py
\* takes no arguments: its pool has 10 workers.
Init ==
    /\ mode \in Modes
    /\ threads \in (IF mode = "problematic" THEN {ProblematicWorkers}
                    ELSE Requested)
    /\ num_threads = threads
    /\ incremental_save \in (IF mode = "main" THEN BOOLEAN ELSE {FALSE})
    /\ phase = IF mode = "problematic" THEN "init" ELSE "args"
    /\ listing \in (IF mode = "checker" THEN SiteListings ELSE {<<>>})
    /\ indicator \in (IF mode = "checker" THEN 0 .. MaxPages ELSE {0})
    /\ max_pages \in (IF mode = "checker" THEN 0 .. MaxPages ELSE {0})
    /\ endless \in (IF mode = "checker" /\ Len(listing) = 1 THEN BOOLEAN
                    ELSE {FALSE})
    /\ pages = <<>>
    /\ found = {}
    /\ errors = <<>>
    /\ current_urls = <<>>
    /\ raw_url = <<>>
    /\ normalized = <<>>
    /\ recon = <<>>
    /\ parser = <<>>
    /\ TailAtRest
    /\ Fresh
    /\ jsonl = <<>>
    /\ artifact = <<>>

\* ------------------------------------------------- the worker count given
\* The cap left out: the pool gets the count as asked for.
AsRequested(n) == n

\* "if args.threads > 10: args.threads = 10" of smithery_scraper.main and
\* rescrape_missing_servers.main.
LimitThreads(n) == IF n > MaxWorkers THEN MaxWorkers ELSE n

\* threads = max(1, min(threads, 10)) of the checker's discovery.
ClampThreads(n) ==
    LET least == IF n < MaxWorkers THEN n ELSE MaxWorkers
    IN  IF least > 1 THEN least ELSE 1

\* The validation of --threads: the scraper and the rescrape script print an
\* error and return when it is below 1 and cap it at 10; the checker clamps
\* it into 1..10 and goes on.
ValidateThreads ==
    /\ phase = "args"
    /\ \/ /\ mode \in {"main", "missing"}
          /\ threads < 1
          /\ phase' = "rejected"
          /\ UNCHANGED num_threads
       \/ /\ mode \in {"main", "missing"}
          /\ ~(threads < 1)
          /\ num_threads' = LimitThreads(threads)
          /\ phase' = "init"
       \/ /\ mode = "checker"
          /\ num_threads' = ClampThreads(threads)
          /\ phase' = "init"
    /\ UNCHANGED <<mode, incremental_save, disc, urls, locals, sessions,
                   stats, stats_lock, wstats, wstats_lock, file_write_lock,
                   jsonl, servers_data, artifact>>

\* ---------------------------------------------------- start of the crawl
\* The per-URL state when the URL list is known.
Queue(list) ==
    /\ urls' = list
    /\ pc' = [t \in DOMAIN list |-> "queued"]
    /\ attempt' = [t \in DOMAIN list |-> 0]
    /\ wait_time' = [t \in DOMAIN list |-> 0]
    /\ server_data' = [t \in DOMAIN list |-> <<>>]

\* What the listing pages may show: up to MaxUrls pages of /server/ links.
PageLinks == {S \in SUBSET Urls : S # {} /\ Cardinality(S) <= MaxUrls}
Listings == UNION {[1 .. n -> PageLinks] : n \in 0 .. MaxUrls}

\* scrape_all_servers, up to "Scraping N servers with T thread(s)": the URL
\* collection and self.stats['total_servers'] = len(all_server_urls).
CollectUrls ==
    /\ mode = "main"
    /\ phase = "init"
    /\ \E shown \in Listings, fail_at \in 0 .. MaxUrls,
          page \in 0 .. MaxUrls, max_servers \in 0 .. MaxUrls :
          LET all_server_urls ==
                  CollectServerUrls(shown, fail_at, page, max_servers)
          IN  /\ Len(all_server_urls) <= MaxUrls
              /\ Queue(all_server_urls)
              /\ stats' = [stats EXCEPT !.total_servers = Len(all_server_urls)]
    /\ phase' = IF SingleThreaded THEN "launch" ELSE "scraping"
    /\ UNCHANGED <<config, disc, sessions, stats_lock, wstats, wstats_lock,
                   file_write_lock, jsonl, servers_data, artifact>>

\* rescrape_missing_servers.main, up to the start of the pool.
LoadUrls ==
    /\ mode = "missing"
    /\ phase = "init"
    /\ \E n \in 0 .. MaxUrls, max \in 0 .. MaxUrls :
          \E data \in [1 .. n -> Urls] :
              LET list == load_urls(data, max)
              IN  /\ Queue(list)
                  /\ wstats' = [wstats EXCEPT !.total = Len(list)]
    /\ phase' = "scraping"
    /\ UNCHANGED <<config, disc, sessions, stats, stats_lock, wstats_lock,
                   file_write_lock, jsonl, servers_data, artifact>>

\* rescrape_problematic_servers.py, up to the start of the pool: the list is
\* taken as the file has it.
LoadProblematic ==
    /\ mode = "problematic"
    /\ phase = "init"
    /\ \E n \in 0 .. MaxUrls :
          \E data \in [1 .. n -> Urls] :
              /\ Queue(data)
              /\ wstats' = [wstats EXCEPT !.total = Len(data)]
    /\ phase' = "scraping"
    /\ UNCHANGED <<config, disc, sessions, stats, stats_lock, wstats_lock,
                   file_write_lock, jsonl, servers_data, artifact>>

\* ------------------------------------- scrape_single_server_with_browser
\* The session of the main thread's single-threaded loop has owner 0; the
\* session of an attempt is owned by the task that attempt belongs to.
SessionsOf(owner) == {s \in sessions : s.owner = owner}

\* Tasks a pool worker is busy with.  A future that has returned frees its
\* worker: in "ret" for the main scraper, in "w_append" for the problematic
\* script (both wait for the main thread's as_completed loop).
Returned(t) ==
    \/ pc[t] \in {"queued", "done"}
    \/ mode = "main" /\ pc[t] = "ret"
    \/ mode = "problematic" /\ pc[t] = "w_append"
\* A worker whose task sleeps in its backoff counts as free.
InFlightAwake == {t \in Tasks : ~Returned(t) /\ pc[t] # "sleep"}

InFlight == {t \in Tasks : ~Returned(t)}

\* "browser = p.chromium.launch(headless=True); page = browser.new_page()"
\* of attempt n, and the page.goto(url) of scrape_server_page on that page.
Launch(t, n) ==
    sessions \cup {[owner |-> t, attempt |-> n, urls |-> {urls[t]}]}

\* browser.close() after scrape_server_page has returned.
CloseBrowser(t) == sessions \ SessionsOf(t)

\* The exception leaves the browser of the failed attempt running.
ExitLeavingBrowser(t) == sessions

\* An exception leaves the "with sync_playwright() as p" block: playwright
\* is stopped and the browser it launched goes with it.
ExitPlaywright(t) == sessions \ SessionsOf(t)

\* The backoff computed from the loop variable as it is: 0 s, 2 s.
BackoffFromZero(n) == n * 2

\* wait_time = (attempt + 1) * 2
Backoff(n) == (n + 1) * 2

\* A pool worker takes the next submitted task and enters the retry loop:
\* attempt 0 launches a browser and scrape_server_page navigates to the URL.
StartTask(t) ==
    /\ phase = "scraping"
    /\ ~SingleThreaded
    /\ pc[t] = "queued"
    /\ \A u \in Tasks : u < t => pc[u] # "queued"
    /\ Cardinality(InFlight) < num_threads
    /\ pc' = [pc EXCEPT ![t] = "page"]
    /\ sessions' = Launch(t, 0)
    /\ UNCHANGED <<config, disc, phase, urls, attempt, wait_time, server_data,
                   stats, stats_lock, wstats, wstats_lock, file_write_lock,
                   jsonl, servers_data, artifact>>

\* scrape_server_page returns: browser.close(), normalize_server.  The task
\* then waits for the statistics lock.
ScrapeOk(t) ==
    /\ phase = "scraping"
    /\ ~SingleThreaded
    /\ pc[t] = "page"
    /\ server_data' = [server_data EXCEPT
                         ![t] = <<normalize_server(ScrapeServerPage(urls[t]))>>]
    /\ sessions' = CloseBrowser(t)
    /\ pc' = [pc EXCEPT ![t] = "got"]
    /\ UNCHANGED <<config, disc, phase, urls, attempt, wait_time, stats,
                   stats_lock, wstats, wstats_lock, file_write_lock, jsonl,
                   servers_data, artifact>>

\* The "except Exception" clause: leaving "with sync_playwright()" by the
\* exception releases the browser; then either the backoff sleep, or, after
\* the last attempt, the failure bookkeeping.
ScrapeRaises(t) ==
    /\ phase = "scraping"
    /\ ~SingleThreaded
    /\ pc[t] = "page"
    /\ sessions' = ExitPlaywright(t)
    /\ \/ /\ attempt[t] < max_retries - 1
          /\ wait_time' = [wait_time EXCEPT ![t] = Backoff(attempt[t])]
          /\ pc' = [pc EXCEPT ![t] = "sleep"]
       \/ /\ ~(attempt[t] < max_retries - 1)
          /\ pc' = [pc EXCEPT ![t] = "failing"]
          /\ UNCHANGED wait_time
    /\ UNCHANGED <<config, disc, phase, urls, attempt, server_data, stats,
                   stats_lock, wstats, wstats_lock, file_write_lock, jsonl,
                   servers_data, artifact>>

\* time.sleep(wait_time) is over: the next iteration of "for attempt in
\* range(max_retries)" launches a new browser and navigates again.
Retry(t) ==
    /\ phase = "scraping"
    /\ pc[t] = "sleep"
    /\ attempt' = [attempt EXCEPT ![t] = @ + 1]
    /\ wait_time' = [wait_time EXCEPT ![t] = 0]
    /\ sessions' = Launch(t, attempt[t] + 1)
    /\ pc' = [pc EXCEPT ![t] = "page"]
    /\ UNCHANGED <<config, disc, phase, urls, server_data, stats, stats_lock,
                   wstats, wstats_lock, file_write_lock, jsonl, servers_data,
                   artifact>>

\* The lock is still held after the "with" block.
LockKept(lock) == lock

\* The end of a "with ..._lock:" block releases the lock (0: free).
ExitLock(lock) == 0

\* Where a task goes when the scraper's own work on it is over: back to the
\* caller of scrape_single_server_with_browser, or, in the single-threaded
\* loop, on to the next URL.
AfterScraper == IF SingleThreaded THEN "done" ELSE "ret"

\* "with self.stats_lock: self.stats['scraped'] += 1" of the failure path.
CountFailed(t) ==
    /\ phase = "scraping"
    /\ pc[t] = "failing"
    /\ stats_lock = 0
    /\ stats_lock' = t
    /\ stats' = Bump(stats, "scraped")
    /\ pc' = [pc EXCEPT ![t] = "exh"]
    /\ UNCHANGED <<config, disc, phase, urls, attempt, wait_time, server_data,
                   sessions, wstats, wstats_lock, file_write_lock, jsonl,
                   servers_data, artifact>>

\* "self.stats['failed'] += 1", the lock is released, "return None".
FailedReturn(t) ==
    /\ phase = "scraping"
    /\ pc[t] = "exh"
    /\ stats_lock = t
    /\ stats' = Bump(stats, "failed")
    /\ stats_lock' = ExitLock(stats_lock)
    /\ server_data' = [server_data EXCEPT ![t] = <<>>]
    /\ attempt' = [attempt EXCEPT ![t] = 0]   \* the loop variable dies here
    /\ pc' = [pc EXCEPT ![t] = AfterScraper]
    /\ UNCHANGED <<config, disc, phase, urls, wait_time, sessions, wstats,
                   wstats_lock, file_write_lock, jsonl, servers_data, artifact>>

\* "with self.stats_lock:" scraped += 1, total_tools += tools_count.
CountScraped(t) ==
    /\ phase = "scraping"
    /\ pc[t] = "got"
    /\ stats_lock = 0
    /\ stats_lock' = t
    /\ stats' = [stats EXCEPT
                   !.scraped = @ + 1,
                   !.total_tools = @ + Len(server_data[t][1].tools)]
    /\ pc' = [pc EXCEPT ![t] = "counted"]
    /\ UNCHANGED <<config, disc, phase, urls, attempt, wait_time, server_data,
                   sessions, wstats, wstats_lock, file_write_lock, jsonl,
                   servers_data, artifact>>

\* The success / partial / failed branch, then the lock is released.
Classify(t) ==
    /\ phase = "scraping"
    /\ pc[t] = "counted"
    /\ stats_lock = t
    /\ LET tools_count == Len(server_data[t][1].tools)
           expected_tools == server_data[t][1].total_tools
       IN  stats' = Bump(stats, CrawlOutcome(tools_count, expected_tools))
    /\ stats_lock' = ExitLock(stats_lock)
    /\ attempt' = [attempt EXCEPT ![t] = 0]
    /\ pc' = [pc EXCEPT ![t] = "save"]
    /\ UNCHANGED <<config, disc, phase, urls, wait_time, server_data, sessions,
                   wstats, wstats_lock, file_write_lock, jsonl, servers_data,
                   artifact>>

\* The writer goes on to open the log whoever holds the lock.
WriteUnlocked(lock) == TRUE

\* "with self.file_write_lock:" / "with file_lock:" is entered only when no
\* thread holds the lock (0: free).
CanWrite(lock) == lock = 0

\* save_server_incrementally: returns at once when incremental saving is off,
\* else takes file_write_lock and opens the log for append.
SaveServerIncrementally(t) ==
    /\ phase = "scraping"
    /\ pc[t] = "save"
    /\ \/ /\ ~incremental_save
          /\ pc' = [pc EXCEPT ![t] = AfterScraper]
          /\ UNCHANGED file_write_lock
       \/ /\ incremental_save
          /\ CanWrite(file_write_lock)
          /\ file_write_lock' = t
          /\ pc' = [pc EXCEPT ![t] = "writing"]
    /\ UNCHANGED <<config, disc, phase, urls, attempt, wait_time, server_data,
                   sessions, stats, stats_lock, wstats, wstats_lock, jsonl,
                   servers_data, artifact>>

\* The log opened with 'w': the line replaces what the log held.
WriteOverLog(log, server) == Dumps(server)

\* The line is written at the head of the log.
WriteBeforeLog(log, server) == Dumps(server) \o log

\* f.write(json.dumps(server_data) + '\n'): one line is appended to the log.
AppendLine(log, server) == log \o Dumps(server)

\* The write, the close and the release of file_write_lock.
WriteLine(t) ==
    /\ phase = "scraping"
    /\ pc[t] = "writing"
    /\ file_write_lock = t
    /\ jsonl' = AppendLine(jsonl, server_data[t][1])
    /\ file_write_lock' = ExitLock(file_write_lock)
    /\ pc' = [pc EXCEPT ![t] = AfterScraper]
    /\ UNCHANGED <<config, disc, phase, urls, attempt, wait_time, server_data,
                   sessions, stats, stats_lock, wstats, wstats_lock,
                   servers_data, artifact>>

\* The as_completed loop of scrape_all_servers: a finished future's record
\* is appended to self.servers_data (a None result is skipped).
CollectResult(t) ==
    /\ phase = "scraping"
    /\ mode = "main"
    /\ pc[t] = "ret"
    /\ servers_data' = servers_data \o server_data[t]
    /\ pc' = [pc EXCEPT ![t] = "done"]
    /\ UNCHANGED <<config, disc, phase, urls, attempt, wait_time, server_data,
                   sessions, stats, stats_lock, wstats, wstats_lock,
                   file_write_lock, jsonl, artifact>>

\* ----------------------- the single-threaded loop of scrape_all_servers
\* "with sync_playwright() as p: browser = p.chromium.launch(); page =
\* browser.new_page()" before the loop over all_server_urls.
LaunchShared ==
    /\ phase = "launch"
    /\ sessions' = sessions \cup {[owner |-> 0, attempt |-> 0, urls |-> {}]}
    /\ phase' = "scraping"
    /\ UNCHANGED <<config, disc, urls, locals, stats, stats_lock, wstats,
                   wstats_lock, file_write_lock, jsonl, servers_data, artifact>>

\* The next URL of the loop: scrape_server_page(page, server_url) navigates
\* the loop's one page to it.
SingleNavigate(t) ==
    /\ phase = "scraping"
    /\ SingleThreaded
    /\ pc[t] = "queued"
    /\ \A u \in Tasks : u < t => pc[u] = "done"
    /\ sessions' = {[s EXCEPT !.urls = @ \cup {urls[t]}] : s \in sessions}
    /\ pc' = [pc EXCEPT ![t] = "page"]
    /\ UNCHANGED <<config, disc, phase, urls, attempt, wait_time, server_data,
                   stats, stats_lock, wstats, wstats_lock, file_write_lock,
                   jsonl, servers_data, artifact>>

\* scrape_server_page returns: normalize_server, self.servers_data.append.
SingleScrapeOk(t) ==
    /\ phase = "scraping"
    /\ SingleThreaded
    /\ pc[t] = "page"
    /\ LET server == normalize_server(ScrapeServerPage(urls[t]))
       IN  /\ server_data' = [server_data EXCEPT ![t] = <<server>>]
           /\ servers_data' = Append(servers_data, server)
    /\ pc' = [pc EXCEPT ![t] = "got"]
    /\ UNCHANGED <<config, disc, phase, urls, attempt, wait_time, sessions,
                   stats, stats_lock, wstats, wstats_lock, file_write_lock,
                   jsonl, artifact>>

\* scrape_server_page raises: the loop's "except Exception" counts the URL
\* as scraped and failed and goes on to the next URL.
SingleScrapeRaises(t) ==
    /\ phase = "scraping"
    /\ SingleThreaded
    /\ pc[t] = "page"
    /\ pc' = [pc EXCEPT ![t] = "failing"]
    /\ UNCHANGED <<config, disc, phase, urls, attempt, wait_time, server_data,
                   sessions, stats, stats_lock, wstats, wstats_lock,
                   file_write_lock, jsonl, servers_data, artifact>>

\* browser.close() after the loop.
CloseShared ==
    /\ phase = "scraping"
    /\ SingleThreaded
    /\ \A t \in Tasks : pc[t] = "done"
    /\ sessions # {}
    /\ sessions' = {}
    /\ UNCHANGED <<config, disc, phase, urls, locals, stats, stats_lock, wstats,
                   wstats_lock, file_write_lock, jsonl, servers_data, artifact>>

\* ------------------------------------ the wrappers of the rescrape scripts
\* rescrape / rescrape_server after scrape_single_server_with_browser has
\* returned: "with stats_lock: stats['completed'] += 1".
WrapperCount(t) ==
    /\ phase = "scraping"
    /\ mode \in {"missing", "problematic"}
    /\ pc[t] = "ret"
    /\ wstats_lock = 0
    /\ wstats_lock' = t
    /\ wstats' = Bump(wstats, "completed")
    /\ pc' = [pc EXCEPT ![t] = "w_counted"]
    /\ UNCHANGED <<config, disc, phase, urls, attempt, wait_time, server_data,
                   sessions, stats, stats_lock, file_write_lock, jsonl,
                   servers_data, artifact>>

\* The status a rescrape script gives a returned record: classify() of
\* rescrape_missing_servers.py, the if/elif/else of rescrape_server.
WrapperStatus(url, server) ==
    IF mode = "missing"
    THEN CrawlOutcome(Len(server.tools), server.total_tools)
    ELSE ProblematicOutcome(Len(server.tools), ProblematicEntry(url).total_tools)

\* The status counter (and 'improved'), then the lock is released.  A None
\* result is counted failed and the wrapper returns.
WrapperClassify(t) ==
    /\ phase = "scraping"
    /\ pc[t] = "w_counted"
    /\ wstats_lock = t
    /\ wstats_lock' = ExitLock(wstats_lock)
    /\ \/ /\ server_data[t] = <<>>
          /\ wstats' = Bump(wstats, "failed")
          /\ pc' = [pc EXCEPT ![t] = "done"]
       \/ /\ server_data[t] # <<>>
          /\ LET server == server_data[t][1]
                 improvement == Len(server.tools)
                                  - ProblematicEntry(urls[t]).actual_tools
                 counted == Bump(wstats, WrapperStatus(urls[t], server))
             IN  wstats' = IF mode = "problematic" /\ improvement > 0
                           THEN Bump(counted, "improved") ELSE counted
          /\ pc' = [pc EXCEPT ![t] = "w_save"]
    /\ UNCHANGED <<config, disc, phase, urls, attempt, wait_time, server_data,
                   sessions, stats, stats_lock, file_write_lock, jsonl,
                   servers_data, artifact>>

\* save_jsonl / save_server_incrementally of the scripts: the file lock is
\* taken and the log opened for append.
WrapperSave(t) ==
    /\ phase = "scraping"
    /\ pc[t] = "w_save"
    /\ CanWrite(file_write_lock)
    /\ file_write_lock' = t
    /\ pc' = [pc EXCEPT ![t] = "w_writing"]
    /\ UNCHANGED <<config, disc, phase, urls, attempt, wait_time, server_data,
                   sessions, stats, stats_lock, wstats, wstats_lock, jsonl,
                   servers_data, artifact>>

\* The write, the close and the release of the file lock.
WrapperWrite(t) ==
    /\ phase = "scraping"
    /\ pc[t] = "w_writing"
    /\ file_write_lock = t
    /\ jsonl' = AppendLine(jsonl, server_data[t][1])
    /\ file_write_lock' = ExitLock(file_write_lock)
    /\ pc' = [pc EXCEPT ![t] = "w_append"]
    /\ UNCHANGED <<config, disc, phase, urls, attempt, wait_time, server_data,
                   sessions, stats, stats_lock, wstats, wstats_lock,
                   servers_data, artifact>>

\* results.append(server_data) by the worker (missing), or
\* rescraped_data.append(result['data']) by the as_completed loop
\* (problematic).
WrapperAppend(t) ==
    /\ phase = "scraping"
    /\ pc[t] = "w_append"
    /\ servers_data' = Append(servers_data, server_data[t][1])
    /\ pc' = [pc EXCEPT ![t] = "done"]
    /\ UNCHANGED <<config, disc, phase, urls, attempt, wait_time, server_data,
                   sessions, stats, stats_lock, wstats, wstats_lock,
                   file_write_lock, jsonl, artifact>>

\* ------------------------------------------------------- the final artifact
AllDone == \A t \in Tasks : pc[t] = "done"

\* SmitheryScraper.save_to_json, called by main() when scrape_all_servers
\* has returned.  An absent log and an empty one are the same here.
save_to_json ==
    /\ phase = "scraping"
    /\ mode = "main"
    /\ AllDone
    /\ sessions = {}
    /\ servers_data' = IF incremental_save /\ jsonl # <<>>
                       THEN MergeFromJsonl(servers_data, Replay(jsonl))
                       ELSE servers_data
    /\ artifact' = NormalizeAll(servers_data')
    /\ phase' = "done"
    /\ UNCHANGED <<config, disc, urls, locals, sessions, stats, stats_lock,
                   wstats, wstats_lock, file_write_lock, jsonl>>

\* rescrape_missing_servers.main after the pool: json.dump(persisted or
\* results).
WriteMissing ==
    /\ phase = "scraping"
    /\ mode = "missing"
    /\ AllDone
    /\ LET persisted == Replay(jsonl)
       IN  artifact' = IF persisted # <<>> THEN persisted ELSE servers_data
    /\ phase' = "done"
    /\ UNCHANGED <<config, disc, urls, locals, sessions, stats, stats_lock,
                   wstats, wstats_lock, file_write_lock, jsonl, servers_data>>

\* rescrape_problematic_servers.py after the pool: rescraped_data is reset
\* and reloaded from the log, then written to rescraped_servers.json.
WriteProblematic ==
    /\ phase = "scraping"
    /\ mode = "problematic"
    /\ AllDone
    /\ servers_data' = Replay(jsonl)
    /\ artifact' = servers_data'
    /\ phase' = "done"
    /\ UNCHANGED <<config, disc, urls, locals, sessions, stats, stats_lock,
                   wstats, wstats_lock, file_write_lock, jsonl>>

\* ------------------------------- the discovery of missing_servers_checker
\* How the fetch of a listing page stands: "queued" (submitted to the pool),
\* "fetching", "ok" (loaded), "failed" (the load raised).
\* The links _fetch_page_urls finds on page n when the page loads: a page
\* after the listed ones shows the links of the last one on a site whose
\* listing never ends, and none otherwise.
PageUrls(n) ==
    IF n \in DOMAIN listing THEN listing[n]
    ELSE IF endless THEN listing[Len(listing)] ELSE {}

\* _fetch_page_urls(page_num): the URLs, the detected total and the error;
\* ok tells whether page.goto loaded the page.
FetchPageUrls(n, ok) ==
    [urls |-> IF ok THEN PageUrls(n) ELSE {},
     detected_total |-> IF ok THEN indicator ELSE 0,
     error |-> ~ok]

\* The status a fetch leaves for its page.
Fetched(result) == IF result.error THEN "failed" ELSE "ok"

\* "if err: errors.append({"page": p_num, "error": err})"
Recorded(errs, n, result) == IF result.error THEN Append(errs, n) ELSE errs

\* total_pages of the discovery, 0 for None.
TotalPages(detected_total) ==
    IF max_pages # 0 THEN max_pages ELSE detected_total

\* The sequential crawl ends after its first page whatever that shows.
StopAlways(page_urls) == TRUE

\* "if not page_urls: break" of the sequential crawl.
StopAtEmpty(page_urls) == page_urls = {}

\* fetch_current_server_urls[_with_errors] up to the choice of the path:
\* page 1 is fetched and seeds urls; with a known total above 1 the other
\* pages are submitted to the pool, else the crawl goes on page by page.
FetchFirst ==
    /\ mode = "checker"
    /\ phase = "init"
    /\ \E ok \in BOOLEAN :
          LET first == FetchPageUrls(1, ok)
              total_pages == TotalPages(first.detected_total)
          IN  /\ found' = first.urls
              /\ errors' = Recorded(errors, 1, first)
              /\ IF total_pages > 1
                 THEN /\ pages' = [n \in 1 .. total_pages |->
                                     IF n = 1 THEN Fetched(first) ELSE "queued"]
                      /\ phase' = "parallel"
                 ELSE /\ pages' = <<Fetched(first)>>
                      /\ phase' = "sequential"
    /\ UNCHANGED <<config, args, current_urls, urls, locals, sessions, stats,
                   stats_lock, wstats, wstats_lock, file_write_lock, jsonl,
                   servers_data, artifact>>

\* The pages a pool worker is fetching.
Fetching == {n \in DOMAIN pages : pages[n] = "fetching"}

\* A pool worker takes the next submitted page.
StartFetch(n) ==
    /\ phase = "parallel"
    /\ pages[n] = "queued"
    /\ \A m \in DOMAIN pages : m < n => pages[m] # "queued"
    /\ Cardinality(Fetching) < num_threads
    /\ pages' = [pages EXCEPT ![n] = "fetching"]
    /\ UNCHANGED <<config, args, phase, found, errors, current_urls, urls, locals,
                   sessions, stats, stats_lock, wstats, wstats_lock,
                   file_write_lock, jsonl, servers_data, artifact>>

\* The URLs of the page taken last replace the ones collected before.
Replaced(collected, page_urls) == page_urls

\* "urls.update(page_urls)" of the as_completed loop.
Update(collected, page_urls) == collected \cup page_urls

\* The fetch of page n is over and the as_completed loop takes its result:
\* urls.update(page_urls), and the error, if any, is recorded.
FinishFetch(n) ==
    /\ phase = "parallel"
    /\ pages[n] = "fetching"
    /\ \E ok \in BOOLEAN :
          LET result == FetchPageUrls(n, ok)
          IN  /\ pages' = [pages EXCEPT ![n] = Fetched(result)]
              /\ found' = Update(found, result.urls)
              /\ errors' = Recorded(errors, n, result)
    /\ UNCHANGED <<config, args, phase, current_urls, urls, locals, sessions,
                   stats, stats_lock, wstats, wstats_lock, file_write_lock,
                   jsonl, servers_data, artifact>>

\* The pool is done: return sorted(urls), errors.
ReturnParallel ==
    /\ phase = "parallel"
    /\ \A n \in DOMAIN pages : pages[n] \in {"ok", "failed"}
    /\ current_urls' = SortedUrls(found)
    /\ phase' = "done"
    /\ UNCHANGED <<config, args, pages, found, errors, urls, locals, sessions,
                   stats, stats_lock, wstats, wstats_lock, file_write_lock,
                   jsonl, servers_data, artifact>>

\* The crawl goes on to the page after the safety limit.
LimitPassed(page) == page > PageSafetyLimit + 1

\* "if page > 100" of the sequential crawl, page being the next page.
SafetyLimit(page) == page > PageSafetyLimit

\* One turn of the "while True" loop of the sequential crawl: the next page
\* is fetched; an empty result ends the crawl before anything is recorded,
\* else the URLs are added, the error recorded, and the crawl ends when the
\* next page is beyond max_pages or the safety limit (which adds an entry
\* to the error list).
SequentialFetch ==
    /\ phase = "sequential"
    /\ \E ok \in BOOLEAN :
          LET page == Len(pages) + 1
              result == FetchPageUrls(page, ok)
          IN  /\ pages' = Append(pages, Fetched(result))
              /\ IF StopAtEmpty(result.urls)
                 THEN /\ phase' = "done"
                      /\ UNCHANGED <<found, errors>>
                 ELSE /\ found' = found \cup result.urls
                      /\ phase' = IF \/ max_pages # 0 /\ page + 1 > max_pages
                                     \/ SafetyLimit(page + 1)
                                  THEN "done" ELSE "sequential"
                      /\ errors' =
                            IF ~(max_pages # 0 /\ page + 1 > max_pages)
                                 /\ SafetyLimit(page + 1)
                            THEN Append(Recorded(errors, page, result), page + 1)
                            ELSE Recorded(errors, page, result)
    /\ current_urls' = IF phase' = "done" THEN SortedUrls(found') ELSE <<>>
    /\ UNCHANGED <<config, args, urls, locals, sessions, stats, stats_lock,
                   wstats, wstats_lock, file_write_lock, jsonl, servers_data,
                   artifact>>

\* ------------------------------------------------------- kill and restart
\* The tasks in the middle of their write to the log.
Writing == {t \in Tasks : pc[t] \in {"writing", "w_writing"}}

\* What a write that is cut short may leave in the file: any beginning of
\* the line short of its newline (k = 0: nothing).
CutShort(log, server) ==
    {log \o SubSeq(Dumps(server), 1, k) : k \in 0 .. Len(Dumps(server)) - 1}

\* The process is killed before it has written the final artifact: the
\* in-memory state is gone, the files stay.
Kill ==
    /\ phase \in {"init", "launch", "scraping"}
    /\ phase' = "dead"
    /\ \/ /\ Writing = {}
          /\ jsonl' = jsonl
       \/ \E t \in Writing : jsonl' \in CutShort(jsonl, server_data[t][1])
    /\ urls' = <<>>
    /\ pc' = <<>>
    /\ attempt' = <<>>
    /\ wait_time' = <<>>
    /\ server_data' = <<>>
    /\ sessions' = {}
    /\ stats' = ZeroStats
    /\ stats_lock' = 0
    /\ wstats' = ZeroWStats
    /\ wstats_lock' = 0
    /\ file_write_lock' = 0
    /\ servers_data' = <<>>
    /\ UNCHANGED <<config, disc, artifact>>

\* The log after the set-up of a new process: os.remove(jsonl) in
\* SmitheryScraper.__init__ when incremental saving is on, and in both
\* rescrape scripts always; the main scraper without incremental saving
\* never touches it.
ClearLog(log) == IF mode = "main" /\ ~incremental_save THEN log ELSE <<>>

\* The orchestrator is started again on the same output path.
Restart ==
    /\ phase = "dead"
    /\ phase' = "init"
    /\ jsonl' = ClearLog(jsonl)
    /\ UNCHANGED <<config, disc, urls, locals, sessions, stats, stats_lock, wstats,
                   wstats_lock, file_write_lock, servers_data, artifact>>

Next ==
    \/ ValidateThreads
    \/ FetchFirst
    \/ ReturnParallel
    \/ SequentialFetch
    \/ \E n \in DOMAIN pages : StartFetch(n)
    \/ \E n \in DOMAIN pages : FinishFetch(n)
    \/ CollectUrls
    \/ LoadUrls
    \/ LoadProblematic
    \/ LaunchShared
    \/ CloseShared
    \/ save_to_json
    \/ WriteMissing
    \/ WriteProblematic
    \/ Kill
    \/ Restart
    \/ \E t \in Tasks : StartTask(t)
    \/ \E t \in Tasks : ScrapeOk(t)
    \/ \E t \in Tasks : ScrapeRaises(t)
    \/ \E t \in Tasks : Retry(t)
    \/ \E t \in Tasks : CountFailed(t)
    \/ \E t \in Tasks : FailedReturn(t)
    \/ \E t \in Tasks : CountScraped(t)
    \/ \E t \in Tasks : Classify(t)
    \/ \E t \in Tasks : SaveServerIncrementally(t)
    \/ \E t \in Tasks : WriteLine(t)
    \/ \E t \in Tasks : CollectResult(t)
    \/ \E t \in Tasks : SingleNavigate(t)
    \/ \E t \in Tasks : SingleScrapeOk(t)
    \/ \E t \in Tasks : SingleScrapeRaises(t)
    \/ \E t \in Tasks : WrapperCount(t)
    \/ \E t \in Tasks : WrapperClassify(t)
    \/ \E t \in Tasks : WrapperSave(t)
    \/ \E t \in Tasks : WrapperWrite(t)
    \/ \E t \in Tasks : WrapperAppend(t)

Spec == Init /\ [][Next]_vars

\* --------------------------------- the URL normalizer on its own
\* The references to a resource: its path as the listing links it, with or
\* without the site origin before it, a trailing slash, a query and a
\* fragment after it.
ResourcePaths == {<<"/", "server", "foo">>,
                  <<"/", "server", "smithery.ai", "/", "foo">>}
Reference(path, origin, slash, query, fragment) ==
    (IF origin THEN BASE_URL ELSE <<>>) \o path
      \o (IF slash THEN <<"/">> ELSE <<>>)
      \o (IF query THEN <<"?", "foo">> ELSE <<>>)
      \o (IF fragment THEN <<"#", "server">> ELSE <<>>)
References ==
    {Reference(path, o, s, q, f) :
         path \in ResourcePaths, o \in BOOLEAN, s \in BOOLEAN, q \in BOOLEAN,
         f \in BOOLEAN}

\* The strings of up to MaxLen tokens.
Strings == UNION {[1 .. n -> Tokens] : n \in 0 .. MaxLen}

\* The normalizer is handed a string: any short one, or a reference.
InitUrl ==
    /\ mode = "checker"
    /\ threads = 1
    /\ num_threads = 1
    /\ incremental_save = FALSE
    /\ phase = "url"
    /\ listing = <<>>
    /\ endless = FALSE
    /\ indicator = 0
    /\ max_pages = 0
    /\ pages = <<>>
    /\ found = {}
    /\ errors = <<>>
    /\ current_urls = <<>>
    /\ raw_url \in Strings \cup References
    /\ normalized = <<>>
    /\ recon = <<>>
    /\ parser = <<>>
    /\ TailAtRest
    /\ Fresh
    /\ jsonl = <<>>
    /\ artifact = <<>>

\* normalized = normalize_server_url(raw)
NormalizeUrl ==
    /\ phase = "url"
    /\ normalized = <<>>
    /\ normalized' = <<normalize_server_url(raw_url)>>
    /\ UNCHANGED <<config, phase, threads, listing, indicator, max_pages,
                   raw_url, pure, endless, tail, pages, found, errors, current_urls, urls, locals,
                   sessions, stats, stats_lock, wstats, wstats_lock,
                   file_write_lock, jsonl, servers_data, artifact>>

\* The string returned is normalized again, as find_missing_servers does
\* with the URLs load_scraped_server_urls has normalized.
NormalizeAgain ==
    /\ phase = "url"
    /\ Len(normalized) = 1
    /\ ~normalized[1].raises
    /\ normalized' = Append(normalized,
                            normalize_server_url(normalized[1].value))
    /\ UNCHANGED <<config, phase, threads, listing, indicator, max_pages,
                   raw_url, pure, endless, tail, pages, found, errors, current_urls, urls, locals,
                   sessions, stats, stats_lock, wstats, wstats_lock,
                   file_write_lock, jsonl, servers_data, artifact>>

NextUrl == NormalizeUrl \/ NormalizeAgain

SpecUrl == InitUrl /\ [][NextUrl]_vars

\* ------------------------------------ the reconciliation on its own
\* The tokens in the order Python gives the strings they stand for.  No
\* token is the beginning of another, so two strings compare as their first
\* differing tokens do.
TokenOrder == <<" ", "#", "/", ":", "?", "[", "foo", "https", "server",
                "smithery.ai">>
Rank(tok) == CHOOSE i \in DOMAIN TokenOrder : TokenOrder[i] = tok

\* a < b on strings
RECURSIVE Less(_, _)
Less(a, b) ==
    IF b = <<>> THEN FALSE
    ELSE IF a = <<>> THEN TRUE
    ELSE IF Head(a) = Head(b) THEN Less(Tail(a), Tail(b))
    ELSE Rank(Head(a)) < Rank(Head(b))

\* sorted(set) of strings
RECURSIVE sorted(_)
sorted(strs) ==
    IF strs = {} THEN <<>>
    ELSE LET least == CHOOSE x \in strs : \A y \in strs \ {x} : Less(x, y)
         IN  <<least>> \o sorted(strs \ {least})

\* "for url in ...: normalized = normalize_server_url(url); if normalized:
\* ..._set.add(normalized)"
NormalizedSet(given) ==
    {normalize_server_url(url).value : url \in given} \ {<<>>}

\* The difference taken the wrong way round.
ScrapedLessCurrent(current_set, scraped_set) == scraped_set \ current_set

\* current_set - scraped_set
Difference(current_set, scraped_set) == current_set \ scraped_set

find_missing_servers(scraped_urls, current) ==
    sorted(Difference(NormalizedSet(current), NormalizedSet(scraped_urls)))

\* The URLs the two sides hold: the empty string and references to four
\* resources, two of them to the same one.
Catalogue ==
    {<<>>,
     Reference(<<"/", "server", "foo">>, FALSE, FALSE, FALSE, FALSE),
     Reference(<<"/", "server", "foo">>, TRUE, TRUE, FALSE, FALSE),
     Reference(<<"/", "server", "smithery.ai", "/", "foo">>, FALSE, FALSE,
               TRUE, FALSE),
     Reference(<<"/", "server", "smithery.ai", "/", "foo">>, TRUE, FALSE,
               FALSE, FALSE),
     Reference(<<"/", "server", "server">>, FALSE, FALSE, FALSE, TRUE),
     Reference(<<"/", "server", "https">>, TRUE, FALSE, FALSE, FALSE)}

\* Everything but the variables of the pure functions, at rest.
AtRest ==
    /\ mode = "checker"
    /\ threads = 1
    /\ num_threads = 1
    /\ incremental_save = FALSE
    /\ listing = <<>>
    /\ endless = FALSE
    /\ indicator = 0
    /\ max_pages = 0
    /\ pages = <<>>
    /\ found = {}
    /\ errors = <<>>
    /\ current_urls = <<>>
    /\ Fresh
    /\ jsonl = <<>>
    /\ artifact = <<>>

\* The reconciliation is handed two sets of URLs.
InitDiff ==
    /\ AtRest
    /\ phase = "diff"
    /\ raw_url = <<>>
    /\ normalized = <<>>
    /\ parser = <<>>
    /\ TailAtRest
    /\ \E scraped_urls \in SUBSET Catalogue, listed \in SUBSET Catalogue :
          recon = [scraped_urls |-> scraped_urls, current_urls |-> listed,
                   missing_urls |-> <<>>, returned |-> FALSE]

\* missing_urls = find_missing_servers(scraped_urls, current_urls)
FindMissing ==
    /\ phase = "diff"
    /\ ~recon.returned
    /\ recon' = [recon EXCEPT
                   !.missing_urls = find_missing_servers(recon.scraped_urls,
                                                         recon.current_urls),
                   !.returned = TRUE]
    /\ UNCHANGED <<run, raw_url, normalized, parser, endless, tail>>

NextDiff == FindMissing

SpecDiff == InitDiff /\ [][NextDiff]_vars

\* --------------------------------------- the parameter parser on its own
\* The text after "Parameters" is a string of tokens: words, the marker
\* "*required", the blank " " and the newline "\n".
Marker == "*required"
TypeKeywords == {"string", "integer", "boolean", "object", "array", "number"}
SectionTokens == {"Connect", "Details", "Resources", "Company",
                  "Capabilities", "Get connection URL",
                  "Or add to your client"}

\* The words that start with a lowercase letter, the words whose letters
\* are all capitals, and the words with an underscore.
SmallWords == TypeKeywords \cup {"paramA", "paramB", "optional"}
CapitalWords == {"X", "Y", "GET_ISSUE", "SEARCH_REPOSITORIES"}
UnderscoreWords == {"GET_ISSUE", "SEARCH_REPOSITORIES"}

\* len(tok)
Length(tok) ==
    CASE tok \in {" ", "X", "Y"} -> 1
      [] tok = "Does" -> 4
      [] tok = "array" -> 5
      [] tok \in {"paramA", "paramB", "string", "object", "number"} -> 6
      [] tok \in {"integer", "boolean", "Connect", "Details", "Company"} -> 7
      [] tok = "optional" -> 8
      [] tok \in {Marker, "Resources", "GET_ISSUE"} -> 9
      [] tok = "Capabilities" -> 12
      [] tok = "Get connection URL" -> 18
      [] tok = "SEARCH_REPOSITORIES" -> 19
      [] tok = "Or add to your client" -> 21

\* len(line)
RECURSIVE len(_)
len(line) == IF line = <<>> THEN 0 ELSE Length(Head(line)) + len(Tail(line))

\* tok in line
In(tok, line) == \E k \in DOMAIN line : line[k] = tok

\* line.isupper(): no lowercase letter and at least one capital.
isupper(line) ==
    /\ \E k \in DOMAIN line : line[k] \in CapitalWords
    /\ \A k \in DOMAIN line : line[k] \in CapitalWords \cup {" "}

\* len(line.split()): the stretches of tokens between blanks.
word_count(line) ==
    Cardinality({k \in DOMAIN line :
                    line[k] # " " /\ (k = 1 \/ line[k - 1] = " ")})

\* text.split('\n'); cur is the piece being read.
RECURSIVE split(_, _)
split(text, cur) ==
    IF text = <<>> THEN <<cur>>
    ELSE IF Head(text) = "\n" THEN <<cur>> \o split(Tail(text), <<>>)
    ELSE split(Tail(text), Append(cur, Head(text)))

\* sep.join(strs)
RECURSIVE join(_, _)
join(strs, sep) ==
    IF strs = <<>> THEN <<>>
    ELSE IF Len(strs) = 1 THEN strs[1]
    ELSE strs[1] \o <<sep>> \o join(Tail(strs), sep)

\* "if line in ['Connect', ...]: break" and "if line.isupper() and '_' in
\* line and len(line) > 15: break"
NeverTerminates(line) == FALSE

Terminates(line) ==
    \/ Len(line) = 1 /\ line[1] \in SectionTokens
    \/ /\ isupper(line)
       /\ \E k \in DOMAIN line : line[k] \in UnderscoreWords
       /\ len(line) > 15

\* line in ['string', 'integer', 'boolean', 'object', 'array', 'number']
IsType(line) == Len(line) = 1 /\ line[1] \in TypeKeywords

\* looks_like_param_name
looks_like_param_name(line) ==
    /\ line # <<>>
    /\ len(line) < 50
    /\ word_count(line) <= 2
    /\ (Head(line) \in SmallWords \/ In(Marker, line))
    /\ (In(Marker, line) \/ ~In(" ", line))

\* The marker is left in the name.
MarkerKept(current_param) == Strip(current_param)

\* current_param.replace('*required', '').strip()
param_name_clean(current_param) ==
    Strip(SelectSeq(current_param, LAMBDA tok : tok # Marker))

\* Each type keyword read replaces the type.
TypeReplaced(current_param, param_type, line) ==
    IF current_param # <<>> THEN line ELSE param_type

\* "if current_param and not param_type: param_type = line"
TypeRead(current_param, param_type, line) ==
    IF current_param # <<>> /\ param_type = <<>> THEN line ELSE param_type

\* parameters[name] = entry: a dict keeps a key in its place.
SetItem(parameters, entry) ==
    IF \E k \in DOMAIN parameters : parameters[k].name = entry.name
    THEN [k \in DOMAIN parameters |->
              IF parameters[k].name = entry.name THEN entry
              ELSE parameters[k]]
    ELSE Append(parameters, entry)

\* "Save previous parameter if complete" and "Save last parameter".  None
\* is the empty string of tokens.  "line" is the number of the line that
\* named the parameter; the code does not keep it.
SaveParameter(p) ==
    IF p.current_param # <<>> /\ p.param_type # <<>>
    THEN LET name == param_name_clean(p.current_param)
         IN  [p EXCEPT
                !.parameters =
                    SetItem(@, [name |-> name, type |-> p.param_type,
                                description |->
                                    Strip(join(p.param_desc, " ")),
                                line |-> p.param_line]),
                !.required_params =
                    IF In(Marker, p.current_param) THEN Append(@, name)
                    ELSE @]
    ELSE p

\* The locals before the loop; i is the line the loop reads next.
BeforeLoop(lines, blocks) ==
    [lines |-> lines, blocks |-> blocks, i |-> 1, current_param |-> <<>>,
     param_line |-> 0, param_type |-> <<>>, param_desc |-> <<>>,
     parameters |-> <<>>, required_params |-> <<>>, at |-> "loop"]

\* One pass of "for line in lines".
LoopBody(p) ==
    LET line == Strip(p.lines[p.i])
        next == [p EXCEPT !.i = @ + 1]
    IN  IF line = <<>> THEN next
        ELSE IF Terminates(line) THEN [p EXCEPT !.at = "break"]
        ELSE IF IsType(line)
        THEN [next EXCEPT
                !.param_type = TypeRead(p.current_param, p.param_type, line)]
        ELSE IF looks_like_param_name(line)
        THEN [SaveParameter(next) EXCEPT
                !.current_param = line, !.param_line = p.i,
                !.param_type = <<>>, !.param_desc = <<>>]
        ELSE IF p.current_param # <<>> /\ p.param_type # <<>>
        THEN [next EXCEPT !.param_desc = Append(@, line)]
        ELSE next

\* The loop is left when it has read every line, or by "break".
LoopOver(p) == p.at = "break" \/ (p.at = "loop" /\ p.i > Len(p.lines))

\* "Save last parameter" and "return parameters, required_params"
AfterLoop(p) == [SaveParameter(p) EXCEPT !.at = "return"]

\* parse_parameters_from_text(text, 0), all of it.
RECURSIVE parse_parameters(_)
parse_parameters(p) ==
    IF p.at = "return" THEN p
    ELSE IF LoopOver(p) THEN parse_parameters(AfterLoop(p))
    ELSE parse_parameters(LoopBody(p))

\* The lines a text is made of: a parameter's name with and without the
\* marker, the marker alone, the types, a sentence, a blank line, a section
\* token and two tool names.
Lines ==
    {<<"paramA", Marker>>, <<"paramA">>, <<"paramB", " ", Marker>>,
     <<Marker>>, <<"string">>, <<"integer">>, <<"Does", " ", "X">>,
     <<" ">>, <<"Connect">>, <<"SEARCH_REPOSITORIES">>, <<"GET_ISSUE">>}
Texts ==
    {join(lines, "\n") :
         lines \in UNION {[1 .. n -> Lines] : n \in 1 .. MaxLines}}

\* The parser is handed a text.
InitParams ==
    /\ AtRest
    /\ phase = "params"
    /\ raw_url = <<>>
    /\ normalized = <<>>
    /\ recon = <<>>
    /\ TailAtRest
    /\ \E text \in Texts : parser = BeforeLoop(split(text, <<>>), <<>>)

\* The documented layout: blocks of a name, with the marker when required,
\* a type and the lines of a description, a blank line between two blocks.
Descriptions ==
    {<<>>, << <<"Does", " ", "X">> >>, << <<"Does", " ", "Y">> >>,
     << <<"Does", " ", "X">>, <<"Does", " ", "Y">> >>,
     << <<"optional">> >>, << <<"number">> >>}
Blocks ==
    [name : {<<"paramA">>, <<"paramB">>}, required : BOOLEAN,
     type : {<<"string">>, <<"integer">>}, description : Descriptions]
Layout(block) ==
    block.name \o (IF block.required THEN <<Marker>> ELSE <<>>) \o <<"\n">>
      \o block.type \o <<"\n">>
      \o (IF block.description = <<>> THEN <<>>
          ELSE join(block.description, "\n") \o <<"\n">>)
Layouts(blocks) == join([k \in DOMAIN blocks |-> Layout(blocks[k])], "\n")

\* The parser is handed the text of some blocks.
InitBlocks ==
    /\ AtRest
    /\ phase = "params"
    /\ raw_url = <<>>
    /\ normalized = <<>>
    /\ recon = <<>>
    /\ TailAtRest
    /\ \E n \in 0 .. MaxBlocks :
          \E blocks \in [1 .. n -> Blocks] :
              parser = BeforeLoop(split(Layouts(blocks), <<>>), blocks)

\* The loop reads its next line.
ParseLine ==
    /\ phase = "params"
    /\ parser.at = "loop"
    /\ parser.i <= Len(parser.lines)
    /\ parser' = LoopBody(parser)
    /\ UNCHANGED <<run, raw_url, normalized, recon, endless, tail>>

\* The code after the loop.
SaveLast ==
    /\ phase = "params"
    /\ LoopOver(parser)
    /\ parser' = AfterLoop(parser)
    /\ UNCHANGED <<run, raw_url, normalized, recon, endless, tail>>

NextParams == ParseLine \/ SaveLast

SpecParams == InitParams /\ [][NextParams]_vars

SpecBlocks == InitBlocks /\ [][NextParams]_vars

\* ------------------------------------------- the tool extractor on its own
\* "if tool_page_num > 100" tested one page late.
ToolPageLimitPassed(n) == n > ToolPageLimit + 1

\* "if tool_page_num > 100: break"
ToolPageLimitReached(n) == n > ToolPageLimit

\* The count the page declares is kept as read.
DeclaredAsRead(count, tools) == count

\* total_tools of scrape_server_page: the count the page declares, or the
\* number of tools extracted when the page declares none (or 0).
DeclaredCount(count, tools) == IF count > 0 THEN count ELSE Len(tools)

\* The matched elements (tool_elements) of tool page n: the listed pages
\* hold what the site gives them; on a site whose last listed page links to
\* a next one, every later page holds one element and links further.
ElementsOn(p, n) == IF n \in DOMAIN p.counts THEN p.counts[n] ELSE 1

\* Whether tool page n shows a link to page n + 1.
NextLink(p, n) == n < Len(p.counts) \/ p.more

\* The outcomes of expanding and reading the element k of page n: the
\* extraction succeeds ("ok"), the expanding click raises ("click"), or the
\* read of the page text raises ("read").  The elements of the pages after
\* the listed ones are stale: their click raises.
Outcomes(p, n) ==
    IF n \in DOMAIN p.counts THEN {"ok", "click", "read"} ELSE {"click"}

\* A click on an element of the accordion expands it when collapsed and
\* collapses it when expanded.
Click(expanded, k) ==
    IF k \in expanded THEN expanded \ {k} ELSE expanded \cup {k}

\* "max_tools is not None and len(tools) >= max_tools"; -1 stands for None.
MaxReached(p) == p.max_tools # -1 /\ Len(p.tools) >= p.max_tools

\* The loop over the elements stops at the first failure.
AbortOnError(p) == [p EXCEPT !.at = "returned"]

\* "except Exception as e: ... continue"
ContinueOnError(p) == p

\* The locals of scrape_tools_with_params when it is called.
Called(caller, max_tools, count, counts, more) ==
    [caller |-> caller, max_tools |-> max_tools, declared |-> count,
     counts |-> counts, more |-> more, at |-> "call", calls |-> 0,
     tools |-> <<>>, tool_page_num |-> 1, navigated |-> 0, loaded |-> TRUE,
     idx |-> 0, previous_element |-> 0, expanded |-> {}, outcome |-> "",
     total_tools |-> 0]

\* scrape_server_page reads the declared count and calls the extractor, in
\* either branch with max_tools=None; any other caller passes its max_tools.
\* The while loop is not entered when max_tools is 0.
CallExtractor(p) ==
    [p EXCEPT !.calls = @ + 1,
              !.at = IF p.max_tools = 0 THEN "returned" ELSE "goto"]

\* The head of one turn of the while loop: page.goto with networkidle,
\* again with domcontentloaded when that raises ("fallback"), the loop
\* left when that raises too ("fail"); then the elements are matched, and
\* a page without any is parsed as text (parsed: the records
\* parse_tools_from_text returns) and ends the loop.
GotoToolsPage(p, load, parsed) ==
    LET n == p.tool_page_num
        q == [p EXCEPT !.loaded = load # "fail", !.navigated = @ + 1,
                       !.idx = 1,
                       !.previous_element = 0, !.expanded = {},
                       !.outcome = ""]
    IN  IF load = "fail" THEN [q EXCEPT !.at = "returned"]
        ELSE IF ElementsOn(p, n) = 0
        THEN [q EXCEPT !.at = "returned",
                       !.tools = @ \o [k \in 1 .. parsed |->
                                          [page |-> n, element |-> k,
                                           clicked |-> FALSE]]]
        ELSE [q EXCEPT !.at = "elements"]

\* One turn of "for i, tool_info in enumerate(tool_elements)": the previous
\* element is clicked (a failure of that click is swallowed), the element is
\* clicked, the text read and the tool appended; previous_element is set
\* when nothing raised.
ExtractTool(p, collapsed, outcome) ==
    LET k == p.idx
        after == IF p.previous_element # 0 /\ collapsed
                 THEN Click(p.expanded, p.previous_element) ELSE p.expanded
        q == [p EXCEPT !.idx = k + 1, !.outcome = outcome,
                       !.at = IF k + 1 > ElementsOn(p, p.tool_page_num)
                              THEN "next" ELSE "elements"]
    IN  IF MaxReached(p) THEN [p EXCEPT !.at = "next"]
        ELSE IF outcome = "click"
        THEN ContinueOnError([q EXCEPT !.expanded = after])
        ELSE IF outcome = "read"
        THEN ContinueOnError([q EXCEPT !.expanded = Click(after, k)])
        ELSE [q EXCEPT !.expanded = Click(after, k),
                       !.tools = Append(@, [page |-> p.tool_page_num,
                                            element |-> k, clicked |-> TRUE]),
                       !.previous_element = k]

\* The code after the loop over the elements: the while loop is left when
\* max_tools is reached, when the page links to no next page, or when the
\* next page is beyond the safety limit.
NextToolPage(p) ==
    IF MaxReached(p) \/ ~NextLink(p, p.tool_page_num)
    THEN [p EXCEPT !.at = "returned"]
    ELSE [p EXCEPT !.tool_page_num = @ + 1,
                   !.at = IF ToolPageLimitReached(p.tool_page_num + 1)
                          THEN "returned" ELSE "goto"]

\* The extractor is called by scrape_server_page, on a page declaring some
\* count of tools, or by a caller giving it a max_tools.  The pagination
\* that never ends is explored for the resources listing one page.
InitTools ==
    /\ AtRest
    /\ phase = "tools"
    /\ raw_url = <<>>
    /\ normalized = <<>>
    /\ recon = <<>>
    /\ parser = <<>>
    /\ fallback = <<>>
    /\ retry = <<>>
    /\ \E n \in 1 .. MaxToolPages :
          \E counts \in [1 .. n -> 0 .. MaxElements],
             more \in (IF n = 1 THEN BOOLEAN ELSE {FALSE}) :
              \/ \E count \in {0, MaxElements} :
                    extractor = Called("page", -1, count, counts, more)
              \/ \E m \in 0 .. MaxElements :
                    extractor = Called("direct", m, 0, counts, more)

Call ==
    /\ phase = "tools"
    /\ extractor.at = "call"
    /\ extractor' = CallExtractor(extractor)
    /\ UNCHANGED <<run, raw_url, normalized, pure, endless, fallback, retry>>

Goto ==
    /\ phase = "tools"
    /\ extractor.at = "goto"
    /\ \E load \in {"ok", "fallback", "fail"}, parsed \in 0 .. MaxElements :
          extractor' = GotoToolsPage(extractor, load, parsed)
    /\ UNCHANGED <<run, raw_url, normalized, pure, endless, fallback, retry>>

Extract ==
    /\ phase = "tools"
    /\ extractor.at = "elements"
    /\ \E collapsed \in BOOLEAN,
          outcome \in Outcomes(extractor, extractor.tool_page_num) :
          extractor' = ExtractTool(extractor, collapsed, outcome)
    /\ UNCHANGED <<run, raw_url, normalized, pure, endless, fallback, retry>>

NextPage ==
    /\ phase = "tools"
    /\ extractor.at = "next"
    /\ extractor' = NextToolPage(extractor)
    /\ UNCHANGED <<run, raw_url, normalized, pure, endless, fallback, retry>>

\* scrape_server_page sets total_tools once the extractor has returned.
SetTotal ==
    /\ phase = "tools"
    /\ extractor.at = "returned"
    /\ extractor.caller = "page"
    /\ extractor' = [extractor EXCEPT
                       !.at = "done",
                       !.total_tools = DeclaredCount(extractor.declared,
                                                     extractor.tools)]
    /\ UNCHANGED <<run, raw_url, normalized, pure, endless, fallback, retry>>

NextTools == Call \/ Goto \/ Extract \/ NextPage \/ SetTotal

SpecTools == InitTools /\ [][NextTools]_vars

\* --------------------------------------------- the retry loop on its own
\* The locals of scrape_single_server_with_browser(server_url, max_retries)
\* when it is called, with the statistics and the log it works on.
Entered(server_url, retries, incremental) ==
    [server_url |-> server_url, max_retries |-> retries,
     incremental_save |-> incremental, attempt |-> 0, at |-> "loop",
     attempts |-> 0, wait_time |-> 0, stats |-> ZeroStats, log |-> <<>>,
     returned |-> <<>>]

\* "for attempt in range(max_retries)": whether the loop has a next turn.
InRange(r) == r.attempt < r.max_retries

\* A turn of the loop whose scrape_server_page returns: the record is
\* normalized, counted, appended to the log when the incremental save is
\* on, and returned.
AttemptReturns(r) ==
    LET server == normalize_server(ScrapeServerPage(r.server_url))
        tools_count == Len(server.tools)
        counted == [r.stats EXCEPT !.scraped = @ + 1,
                                   !.total_tools = @ + tools_count]
    IN  [r EXCEPT !.attempts = @ + 1,
                  !.stats = Bump(counted,
                                 CrawlOutcome(tools_count, server.total_tools)),
                  !.log = IF r.incremental_save THEN AppendLine(@, server)
                          ELSE @,
                  !.returned = <<server>>,
                  !.at = "returned"]

\* A turn of the loop that raises: the backoff sleep, or after the last
\* turn the failure is counted and None returned.
AttemptRaises(r) ==
    IF r.attempt < r.max_retries - 1
    THEN [r EXCEPT !.attempts = @ + 1, !.wait_time = Backoff(r.attempt),
                   !.at = "sleep"]
    ELSE [r EXCEPT !.attempts = @ + 1,
                   !.stats = Bump(Bump(@, "scraped"), "failed"),
                   !.at = "returned"]

\* The function is called on some URL with some max_retries.
InitRetry ==
    /\ AtRest
    /\ phase = "retry"
    /\ raw_url = <<>>
    /\ normalized = <<>>
    /\ recon = <<>>
    /\ parser = <<>>
    /\ extractor = <<>>
    /\ fallback = <<>>
    /\ \E server_url \in Urls, retries \in 0 .. MaxRetries,
          incremental \in BOOLEAN :
          retry = Entered(server_url, retries, incremental)

\* One turn of the loop.
Attempt ==
    /\ phase = "retry"
    /\ retry.at = "loop"
    /\ InRange(retry)
    /\ \/ retry' = AttemptReturns(retry)
       \/ retry' = AttemptRaises(retry)
    /\ UNCHANGED <<run, raw_url, normalized, pure, endless, extractor,
                   fallback>>

\* time.sleep(wait_time) is over and the loop takes its next value.
Wake ==
    /\ phase = "retry"
    /\ retry.at = "sleep"
    /\ retry' = [retry EXCEPT !.attempt = @ + 1, !.at = "loop"]
    /\ UNCHANGED <<run, raw_url, normalized, pure, endless, extractor,
                   fallback>>

\* The loop has no turn left: the function ends and returns None.
FallThrough ==
    /\ phase = "retry"
    /\ retry.at = "loop"
    /\ ~InRange(retry)
    /\ retry' = [retry EXCEPT !.at = "returned"]
    /\ UNCHANGED <<run, raw_url, normalized, pure, endless, extractor,
                   fallback>>

NextRetry == Attempt \/ Wake \/ FallThrough

SpecRetry == InitRetry /\ [][NextRetry]_vars

\* --------------------------------------- the text-fallback parser on its own
\* Lines are sequences of tokens, as for the parameter parser.
Digits == {"1", "2"}

\* line.isdigit()
isdigit(line) == line # <<>> /\ \A k \in DOMAIN line : line[k] \in Digits

\* line[0].isupper(): the words that start with a capital.
CapitalFirst ==
    CapitalWords \cup SectionTokens \cup {"Does", "Tools", "Prompts"}
first_isupper(line) == Head(line) \in CapitalFirst

\* The scan goes on over every line.
NoSectionBreak(line) == FALSE

\* line in ["Connect", "Details", "Company", "Capabilities"]
SectionBreak(line) ==
    line \in {<<"Connect">>, <<"Details">>, <<"Company">>, <<"Capabilities">>}

\* line in ["Resources", "Prompts"]
SectionLabel(line) == line \in {<<"Resources">>, <<"Prompts">>}

\* lines.index(line), counted from 1; 0 when it raises ValueError.
Index(lines, line) ==
    IF \E k \in DOMAIN lines : lines[k] = line
    THEN CHOOSE k \in DOMAIN lines :
             /\ lines[k] = line
             /\ \A j \in 1 .. k - 1 : lines[j] # line
    ELSE 0

\* "while i < len(lines) and (lines[i].isdigit() or "/" in lines[i]): i += 1"
RECURSIVE SkipNumeric(_, _)
SkipNumeric(lines, i) ==
    IF i <= Len(lines) /\ (isdigit(lines[i]) \/ In("/", lines[i]))
    THEN SkipNumeric(lines, i + 1) ELSE i

\* The inner loop: the lines of the description of a tool, up to the line
\* that ends it.
RECURSIVE ReadDescription(_, _, _)
ReadDescription(lines, i, desc_lines) ==
    IF i > Len(lines) THEN [i |-> i, desc_lines |-> desc_lines]
    ELSE LET desc_line == Strip(lines[i])
         IN  IF desc_line = <<>>
             THEN ReadDescription(lines, i + 1, desc_lines)
             ELSE IF \/ SectionBreak(desc_line) \/ SectionLabel(desc_line)
                     \/ isupper(desc_line)
                          /\ \E k \in DOMAIN desc_line :
                                desc_line[k] \in UnderscoreWords
                     \/ word_count(desc_line) <= 6 /\ first_isupper(desc_line)
             THEN [i |-> i, desc_lines |-> desc_lines]
             ELSE ReadDescription(lines, i + 1, Append(desc_lines, desc_line))

\* The locals of parse_tools_from_text(body_text) at its first statement
\* after "lines = [ln.strip() for ln in body_text.split("\n")]".
Handed(body_text) ==
    LET pieces == split(body_text, <<>>)
    IN  [lines |-> [k \in DOMAIN pieces |-> Strip(pieces[k])],
         at |-> "start", start_idx |-> 0, i |-> 0, tools |-> <<>>]

\* The header is looked up and the numeric lines after it are skipped; with
\* no header the empty list is returned.
FindHeaderLine(f) ==
    LET start_idx == Index(f.lines, <<"Tools">>)
    IN  IF start_idx = 0 THEN [f EXCEPT !.at = "return"]
        ELSE [f EXCEPT !.start_idx = start_idx,
                       !.i = SkipNumeric(f.lines, start_idx + 1),
                       !.at = "scan"]

\* One turn of the outer loop.
ScanTurn(f) ==
    LET line == Strip(f.lines[f.i])
        read == ReadDescription(f.lines, f.i + 1, <<>>)
    IN  IF line = <<>> THEN [f EXCEPT !.i = @ + 1]
        ELSE IF SectionBreak(line) THEN [f EXCEPT !.at = "return"]
        ELSE IF SectionLabel(line)
        THEN [f EXCEPT !.i = IF f.i + 1 <= Len(f.lines)
                                  /\ isdigit(f.lines[f.i + 1])
                               THEN f.i + 2 ELSE f.i + 1]
        ELSE [f EXCEPT
                !.i = read.i,
                !.tools = Append(@,
                    [name |-> line,
                     description |-> Strip(join(read.desc_lines, " ")),
                     inputSchema |-> [type |-> "object",
                                      properties |-> <<>>]])]

\* The lines the parser is given.
ToolLines ==
    {<<>>, <<"Tools">>, <<"Tools", " ">>, <<"2">>, <<"1", "/", "2">>,
     <<"Connect">>, <<"Resources">>, <<"GET_ISSUE">>, <<"Does", " ", "X">>,
     <<"optional">>,
     <<"Does", " ", "X", " ", "Y", " ", "X", " ", "Y", " ", "X", " ", "Y">>}
ToolTexts ==
    {join(lines, "\n") :
         lines \in UNION {[1 .. n -> ToolLines] : n \in 1 .. MaxLines}}

\* The parser is handed a text.
InitFallback ==
    /\ AtRest
    /\ phase = "fallback"
    /\ raw_url = <<>>
    /\ normalized = <<>>
    /\ recon = <<>>
    /\ parser = <<>>
    /\ extractor = <<>>
    /\ retry = <<>>
    /\ \E body_text \in ToolTexts : fallback = Handed(body_text)

\* The statements before the outer loop.
FindHeader ==
    /\ phase = "fallback"
    /\ fallback.at = "start"
    /\ fallback' = FindHeaderLine(fallback)
    /\ UNCHANGED <<run, raw_url, normalized, pure, endless, extractor, retry>>

\* The outer loop reads its next line.
ScanLine ==
    /\ phase = "fallback"
    /\ fallback.at = "scan"
    /\ fallback.i <= Len(fallback.lines)
    /\ fallback' = ScanTurn(fallback)
    /\ UNCHANGED <<run, raw_url, normalized, pure, endless, extractor, retry>>

\* "while i < len(lines)" ends the loop: return tools.
ReturnTools ==
    /\ phase = "fallback"
    /\ fallback.at = "scan"
    /\ fallback.i > Len(fallback.lines)
    /\ fallback' = [fallback EXCEPT !.at = "return"]
    /\ UNCHANGED <<run, raw_url, normalized, pure, endless, extractor, retry>>

NextFallback == FindHeader \/ ScanLine \/ ReturnTools

SpecFallback == InitFallback /\ [][NextFallback]_vars

\* ================================================================ claims
\* Task t moves from one place of its code to another in this step.
Step(t, from, to) == t \in DOMAIN pc' /\ pc[t] = from /\ pc'[t] = to

\* The record a task holds has this many extracted tools.
Extracted(t) == Len(server_data[t][1].tools)

\* C1: the scraper's statistics classify a record by its extracted tools
\* against the count the site declares: success iff equal and > 0, partial
\* iff some tools were extracted and the counts differ, failed otherwise.
C1_ClassifiedAgainstDeclared ==
    [][\A t \in Tasks :
          Step(t, "counted", "save") =>
              stats' = Bump(stats, CrawlOutcome(Extracted(t),
                                                SiteDeclared(urls[t])))]_vars

\* The records of a sequence keep the count the site states for their URL
\* (when the site states one).
KeepDeclared(servers) ==
    \A i \in DOMAIN servers :
        SiteDeclared(servers[i].server_url) > 0 =>
            servers[i].total_tools = SiteDeclared(servers[i].server_url)

\* C2: the total_tools of the record that is classified, appended to the
\* log and written to the final artifact is the count the site states, also
\* when fewer tools were extracted.
C2_DeclaredCountKept ==
    /\ \A t \in Tasks : pc[t] = "counted" => KeepDeclared(server_data[t])
    /\ KeepDeclared(Replay(jsonl))
    /\ KeepDeclared(artifact)

\* C3: in every orchestrator a resource with declared count 0 and no
\* extracted tool is classified failed, never success or partial.
C3_ZeroOfZeroIsFailed ==
    [][\A t \in Tasks :
          /\ Step(t, "counted", "save")
                 /\ SiteDeclared(urls[t]) = 0 /\ Extracted(t) = 0
               => stats' = Bump(stats, "failed")
          /\ Step(t, "w_counted", "w_save")
                 /\ SiteDeclared(urls[t]) = 0 /\ Extracted(t) = 0
               => wstats' = Bump(wstats, "failed")]_vars

\* Every record of one sequence is a record of the other.
AllIn(servers, others) ==
    \A i \in DOMAIN servers : \E j \in DOMAIN others : others[j] = servers[i]

\* The run keeps an incremental log.
LogInUse == mode # "main" \/ incremental_save

\* C4, as claimed: the records in the log of a run that stopped are still
\* in the log when the orchestrator has been started again.
C4_LogSurvivesRestart ==
    [][phase = "dead" /\ phase' = "init"
          => AllIn(Replay(jsonl), Replay(jsonl'))]_vars

\* s is a beginning of t.
IsPrefix(s, t) == Len(s) <= Len(t) /\ SubSeq(t, 1, Len(s)) = s

\* C4, amended: while a run goes on the log only grows, the final artifact
\* the run writes holds every record of its log, and starting the
\* orchestrator again deletes the log of the stopped run.
C4_LogKeptWithinRun ==
    [][/\ phase # "dead" => IsPrefix(jsonl, jsonl')
       /\ phase' = "done" => AllIn(Replay(jsonl'), artifact')
       /\ phase = "dead" /\ phase' = "init" /\ LogInUse => jsonl' = <<>>]_vars

\* A run was killed with records in its log.
C4_Witness ==
    /\ phase = "dead"
    /\ mode = "main"
    /\ Len(Replay(jsonl)) >= 2

\* C5: each completed append adds exactly its record at the end of the
\* replayed log, every run starts from an empty log, and no other step,
\* a kill included, changes what the replay yields: after N appends the
\* replay yields those N records in append order.  (A kill in the middle of
\* a write leaves at most that write's own record, never a part of it.)
C5_ReplayYieldsAppended ==
    [][/\ phase' = "init" /\ LogInUse => Replay(jsonl') = <<>>
       /\ \A t \in Tasks :
              Step(t, "writing", AfterScraper) \/ Step(t, "w_writing", "w_append")
                  => Replay(jsonl') = Append(Replay(jsonl), server_data[t][1])
       /\ phase' = "dead" /\ Writing = {} => Replay(jsonl') = Replay(jsonl)
       /\ phase' = "dead" /\ Writing # {} =>
              \E t \in Writing :
                  Replay(jsonl') \in {Replay(jsonl),
                                      Append(Replay(jsonl), server_data[t][1])}
       /\ phase' \notin {"init", "dead"}
              /\ (\A t \in Tasks : pc[t] \in {"writing", "w_writing"}
                                       => pc'[t] = pc[t])
            => Replay(jsonl') = Replay(jsonl)]_vars

\* A run was killed right after its first append, while the line of the
\* second one was cut short: the replay yields the one record appended.
C5_Witness ==
    /\ phase = "dead"
    /\ Len(Replay(jsonl)) = 1
    /\ Len(SplitLines(jsonl, <<>>)) = 2

\* C6: the final artifact of save_to_json holds at most one record per
\* server_url.
C6_ArtifactUrlsUnique ==
    phase = "done" /\ mode = "main" =>
        \A i, j \in DOMAIN artifact :
            artifact[i].server_url = artifact[j].server_url => i = j

\* C7: an attempt that raises is followed by a retry after twice the number
\* of the failed attempt in seconds (2 s after the 1st, 4 s after the 2nd),
\* at most max_retries attempts are made, and after
\* the last one the URL is counted scraped and failed once each, None is
\* returned and nothing is appended to the log.
C7_RetryBackoffThenFailedOnce ==
    [][\A t \in Tasks :
          /\ Step(t, "page", "sleep") =>
                /\ attempt[t] + 1 < max_retries
                /\ wait_time'[t] = 2 * (attempt[t] + 1)
                /\ stats' = stats /\ jsonl' = jsonl
          /\ Step(t, "sleep", "page") =>
                attempt'[t] = attempt[t] + 1 /\ attempt'[t] + 1 <= max_retries
          /\ Step(t, "page", "failing") /\ ~SingleThreaded =>
                attempt[t] + 1 = max_retries /\ stats' = stats /\ jsonl' = jsonl
          /\ Step(t, "failing", "exh") =>
                stats' = [stats EXCEPT !.scraped = @ + 1] /\ jsonl' = jsonl
          /\ Step(t, "exh", AfterScraper) =>
                /\ stats' = [stats EXCEPT !.failed = @ + 1]
                /\ server_data'[t] = <<>>
                /\ jsonl' = jsonl]_vars

\* Both retries were spent and the URL came back as None, counted failed.
C7_Witness ==
    /\ mode = "main"
    /\ num_threads > 1
    /\ incremental_save
    /\ \E t \in Tasks : pc[t] = "ret" /\ server_data[t] = <<>>
    /\ stats.scraped = 1
    /\ stats.failed = 1
    /\ jsonl = <<>>

\* C8: for every worker count a resource whose extraction raises is counted
\* failed only after all max_retries attempts were made.
C8_FailedOnlyAfterRetries ==
    [][\A t \in Tasks :
          Step(t, "page", "failing") => attempt[t] + 1 = max_retries]_vars

\* C9: no rendering session is used for more than one resource URL.
C9_SessionPerUrl == \A s \in sessions : Cardinality(s.urls) <= 1

\* C10: the session of an attempt of scrape_single_server_with_browser is
\* open only while that attempt is under way, no worker has two sessions
\* open, there are never more sessions than workers, and none is open when
\* the run has returned.
C10_SessionsReleased ==
    /\ \A t \in Tasks :
          /\ SessionsOf(t) # {} => pc[t] = "page"
          /\ Cardinality(SessionsOf(t)) <= 1
    /\ Cardinality(sessions) <= num_threads
    /\ (AllDone /\ ~SingleThreaded) \/ phase = "done" => sessions = {}

\* A pool run has returned after one URL succeeded and the other one raised
\* on every attempt.
C10_Witness ==
    /\ phase = "done"
    /\ mode = "main"
    /\ num_threads > 1
    /\ Len(urls) = 2
    /\ Len(servers_data) = 1
    /\ stats.success = 1
    /\ stats.failed = 1
    /\ sessions = {}

\* C11: at most one worker is writing to the incremental log at any time,
\* and while a run goes on the log changes only by the lock holder appending
\* exactly one complete line, its record followed by one newline, so every
\* line of the log is one worker's whole record.
C11_OneWriterWholeLines ==
    /\ [](Cardinality(Writing) <= 1)
    /\ [][phase = "scraping" /\ phase' = "scraping" /\ jsonl' # jsonl =>
              \E t \in Writing :
                  /\ file_write_lock = t
                  /\ jsonl' = jsonl \o DumpsNoNewline(server_data[t][1])
                                   \o <<Newline>>
                  /\ Len(SplitLines(jsonl', <<>>)) = Len(Replay(jsonl'))]_vars

\* One worker holds the lock and is writing while another, its record
\* classified, waits for the lock.
C11_Witness ==
    \E t, u \in Tasks :
        /\ pc[t] = "writing" /\ file_write_lock = t
        /\ pc[u] = "save" /\ incremental_save

\* The URLs scrape_single_server_with_browser is at work on: an attempt is
\* under way, or due after the backoff, or its result is being counted and
\* saved.
Extracting ==
    {t \in Tasks : pc[t] \in {"page", "sleep", "got", "counted", "save",
                               "writing", "failing", "exh"}}

\* C12: with a worker count of k never more than k URLs are being extracted
\* at once, and never more than k attempts (rendering sessions) are under
\* way, whatever fails and is retried.
C12_AtMostKInFlight ==
    /\ Cardinality(Extracting) <= num_threads
    /\ Cardinality({t \in Tasks : pc[t] = "page"}) <= num_threads
    /\ Cardinality(sessions) <= num_threads

\* A pool of two workers with both at work, one of them on a retry: the
\* bound is reached.
C12_Witness ==
    /\ mode = "missing"
    /\ num_threads = 2
    /\ Cardinality(Extracting) = 2
    /\ \E t, u \in Tasks : /\ pc[t] = "page" /\ attempt[t] = 1
                            /\ pc[u] = "sleep"

\* The worker count in use once the arguments are validated: within 1..10,
\* the request itself when that is within 1..10, and 10 for a larger one.
PoolWithinBounds ==
    phase \notin {"args", "rejected"} =>
        /\ num_threads \in 1 .. MaxWorkers
        /\ threads > MaxWorkers => num_threads = MaxWorkers
        /\ threads \in 1 .. MaxWorkers => num_threads = threads

\* C13, as claimed: a request below 1 stops the run before any page is
\* fetched, a request above 10 runs with 10 workers, and no pool has a size
\* outside 1..10.
C13_BelowOneStopsRun ==
    /\ threads < 1 => phase \in {"args", "rejected"}
    /\ PoolWithinBounds

\* C13, amended: the scraper and the rescrape script stop on a request below
\* 1 before any page is fetched, the checker's discovery clamps it to 1 and
\* goes on; a request above 10 runs with 10 workers and no pool has a size
\* outside 1..10.
C13_RejectedOrClamped ==
    /\ threads < 1 /\ mode \in {"main", "missing"} =>
           /\ phase \in {"args", "rejected"}
           /\ urls = <<>> /\ sessions = {}
    /\ threads < 1 /\ mode = "checker" /\ phase # "args" => num_threads = 1
    /\ PoolWithinBounds

\* The scraper was asked for 15 workers and runs its pool, the cap of 10
\* in force, with two extractions under way.
C13_Witness ==
    /\ mode = "main"
    /\ threads > MaxWorkers
    /\ num_threads = MaxWorkers
    /\ Cardinality({t \in Tasks : pc[t] = "page"}) = 2

\* The discovery of the checker has returned.
Discovered == mode = "checker" /\ phase = "done"

\* Page n is among the pages the discovery has fetched.
WasFetched(n) == n \in DOMAIN pages /\ pages[n] \in {"ok", "failed"}

\* C14: when the discovery returns, every listing page whose fetch failed
\* is in the returned error list, and the page after it, when it shows links
\* and is within the pages asked for, was fetched all the same.
C14_FailedPageRecorded ==
    Discovered =>
        \A n \in DOMAIN pages :
            pages[n] = "failed" =>
                /\ \E i \in DOMAIN errors : errors[i] = n
                /\ PageUrls(n + 1) # {} /\ max_pages = 0 /\ indicator = 0
                       => WasFetched(n + 1)

\* C15: with maxPages = k >= 1 the discovery never fetches a page numbered
\* above k, and when it returns it has fetched pages 1..k.
C15_MaxPagesOverrides ==
    mode = "checker" /\ max_pages >= 1 =>
        /\ DOMAIN pages \subseteq 1 .. max_pages
        /\ phase = "done" => \A n \in 1 .. max_pages : WasFetched(n)

\* The discovery crawls page by page: no total is known and no maxPages
\* given.
Fallback == mode = "checker" /\ max_pages = 0 /\ indicator = 0

\* No fetch of the discovery has failed.
NoneFailed == \A n \in DOMAIN pages : pages[n] # "failed"

\* The links of all listing pages.
AllListed == UNION {listing[n] : n \in DOMAIN listing}

\* C16, as claimed: the page-by-page crawl stops at the first empty page:
\* it fetches no page after the first page without links, and returns the
\* union of the pages before that one.
C16_StopsAtFirstEmptyPage ==
    Fallback /\ NoneFailed =>
        /\ DOMAIN pages \subseteq 1 .. Len(listing) + 1
        /\ phase = "done" => current_urls = SortedUrls(AllListed)

\* The pages from page 2 on that gave the crawl no URL: without links, or
\* failed to load.
Barren == {n \in DOMAIN pages : n >= 2 /\ (pages[n] = "failed" \/ PageUrls(n) = {})}

\* C16, amended: the page-by-page crawl always fetches pages 1 and 2 and
\* from page 2 on stops at the first page that gives it no URL (without
\* links or failed to load): that page is the last one fetched (when no
\* such page comes the page at the safety limit is), and the crawl returns
\* the union of the links of the pages that loaded; with 3 pages of links
\* and an empty 4th, none failing, the URLs of exactly those 3.
C16_StopsAtFirstEmptyAfterFirst ==
    Fallback =>
        /\ Barren \subseteq {Len(pages)}
        /\ phase = "done" =>
              /\ Len(pages) >= 2
              /\ \/ Barren = {Len(pages)}
                 \/ Barren = {} /\ Len(pages) = PageSafetyLimit
              /\ current_urls =
                     SortedUrls(UNION {PageUrls(n) :
                                         n \in {m \in DOMAIN pages : pages[m] = "ok"}})
              /\ NoneFailed /\ Len(listing) >= 1 =>
                     /\ ~endless => Len(pages) = Len(listing) + 1
                     /\ current_urls = SortedUrls(AllListed)

\* Three pages of links and an empty fourth were crawled page by page.
C16_Witness ==
    /\ Fallback /\ NoneFailed
    /\ phase = "done"
    /\ Len(listing) = 3
    /\ Len(pages) = 4
    /\ listing[1] # listing[2]
    /\ current_urls = SortedUrls(AllListed)

\* No element occurs twice in the sequence.
NoDuplicates(seq) ==
    \A i, j \in DOMAIN seq : seq[i] = seq[j] => i = j

\* C17: the URL sequence the discovery hands on, to the extraction workers
\* of the scraper and to the reconciliation of the checker, holds each
\* resource URL at most once.
C17_DiscoveredUrlsUnique ==
    /\ mode = "main" => NoDuplicates(urls)
    /\ mode = "checker" => NoDuplicates(current_urls)

\* C18: normalizing a normalized URL returns it unchanged.
C18_NormalizeIdempotent ==
    Len(normalized) = 2 =>
        /\ ~normalized[2].raises
        /\ normalized[2].value = normalized[1].value

\* C19: every reference to a resource, with or without the site origin, a
\* trailing slash, a query and a fragment, normalizes to the same string:
\* the origin followed by the resource's path.
C19_ReferencesNormalizeAlike ==
    \A path \in ResourcePaths :
        \A o \in BOOLEAN, s \in BOOLEAN, q \in BOOLEAN, f \in BOOLEAN :
            raw_url = Reference(path, o, s, q, f) /\ normalized # <<>> =>
                /\ ~normalized[1].raises
                /\ normalized[1].value = BASE_URL \o path

\* "https://smithery.ai/server/foo?foo" was normalized, to what
\* "/server/foo/" is normalized to.
C19_Witness ==
    /\ raw_url = Reference(<<"/", "server", "foo">>, TRUE, FALSE, TRUE, FALSE)
    /\ normalized # <<>>
    /\ normalized[1] =
           normalize_server_url(<<"/", "server", "foo", "/">>)

\* C20: the normalizer never raises and never returns an empty string.
C20_TotalNoEmptyString ==
    \A i \in DOMAIN normalized :
        /\ ~normalized[i].raises
        /\ normalized[i].value # <<>>

\* The elements of a list.
Range(list) == {list[i] : i \in DOMAIN list}

\* The URLs of a set in normal form, the empty "no result" left out.
NormalForms(given) ==
    {u \in {normalize_server_url(x).value : x \in given} : u # <<>>}

\* C21: the list find_missing_servers returns is strictly ascending (so
\* duplicate-free) and holds exactly the normalized current URLs that are
\* not among the normalized scraped ones; it is empty when both sides are
\* the same set and holds every normalized current URL when nothing was
\* scraped.
C21_MissingIsSortedDifference ==
    recon # <<>> /\ recon.returned =>
        LET missing == recon.missing_urls
            A == NormalForms(recon.scraped_urls)
            B == NormalForms(recon.current_urls)
        IN  /\ \A i, j \in DOMAIN missing :
                   i < j => Less(missing[i], missing[j])
            /\ \A u \in B : u \in Range(missing) <=> u \notin A
            /\ Range(missing) \subseteq B
            /\ recon.scraped_urls = recon.current_urls => missing = <<>>
            /\ recon.scraped_urls = {} =>
                   Range(missing) = B /\ Len(missing) = Cardinality(B)

\* Two references to a scraped resource are listed next to three resources
\* never scraped: the three are returned, in order.
C21_Witness ==
    /\ recon # <<>>
    /\ recon.returned
    /\ Len(recon.missing_urls) = 3
    /\ Cardinality(recon.current_urls) = 6
    /\ recon.scraped_urls =
           {Reference(<<"/", "server", "foo">>, FALSE, FALSE, FALSE, FALSE)}

\* The parser has returned.
Parsed == parser # <<>> /\ parser.at = "return"

\* The mapping returned: per name, in the order of the dict, the type and
\* the description.
Mapping ==
    [k \in DOMAIN parser.parameters |->
         [name |-> parser.parameters[k].name,
          type |-> parser.parameters[k].type,
          description |-> parser.parameters[k].description]]

\* What a list of blocks says: each block's name, type and description
\* (its lines joined by a space), and the names of the required blocks.
Described(blocks) ==
    [k \in DOMAIN blocks |->
         [name |-> blocks[k].name, type |-> blocks[k].type,
          description |-> join(blocks[k].description, " ")]]
RequiredOf(blocks) ==
    LET marked == SelectSeq(blocks, LAMBDA block : block.required)
    IN  [k \in DOMAIN marked |-> marked[k].name]
Recovered ==
    /\ Mapping = Described(parser.blocks)
    /\ parser.required_params = RequiredOf(parser.blocks)

\* "paramA*required\nstring\nDoes X\n\nparamB\ninteger\nDoes Y\n"
DocumentedText ==
    <<"paramA", "*required", "\n", "string", "\n", "Does", " ", "X", "\n",
      "\n", "paramB", "\n", "integer", "\n", "Does", " ", "Y", "\n">>

WellFormed(blocks) ==
    /\ \A k, l \in DOMAIN blocks : blocks[k].name = blocks[l].name => k = l
    /\ \A k \in DOMAIN blocks :
          /\ looks_like_param_name(blocks[k].name)
          /\ ~IsType(blocks[k].name)
          /\ \A d \in DOMAIN blocks[k].description :
                LET line == blocks[k].description[d]
                IN  /\ Strip(line) # <<>>
                    /\ ~IsType(line)
                    /\ ~Terminates(line)
                    /\ ~looks_like_param_name(line)

Names == [k \in DOMAIN parser.parameters |-> parser.parameters[k].name]

\* A step of the parser that stores a parameter.
Stores == parser # <<>> /\ parser'.parameters # parser.parameters

\* C23: each name of the mapping returned is non-empty and occurs once, and
\* a parameter stored under a name already there replaces it (the later
\* occurrence's type and description are kept).
C23_NamesNonEmptyUniqueLastWins ==
    /\ [](Parsed =>
            /\ \A k \in DOMAIN Names : Names[k] # <<>>
            /\ \A k, l \in DOMAIN Names : Names[k] = Names[l] => k = l)
    /\ [][Stores =>
            \E k \in DOMAIN parser'.parameters :
                /\ parser'.parameters[k].name =
                       param_name_clean(parser.current_param)
                /\ parser'.parameters[k].type = parser.param_type
                /\ parser'.parameters[k].line = parser.param_line]_vars

\* C24: the required names returned are keys of the mapping returned; a key
\* is among them iff the line that introduced the parameter stored under it
\* carries the marker; no key holds the marker.
C24_RequiredFollowsStoredLine ==
    Parsed =>
        /\ \A r \in DOMAIN parser.required_params :
              \E k \in DOMAIN Names : Names[k] = parser.required_params[r]
        /\ \A k \in DOMAIN parser.parameters :
              LET entry == parser.parameters[k]
              IN  /\ ~In(Marker, entry.name)
                  /\ (\E r \in DOMAIN parser.required_params :
                          parser.required_params[r] = entry.name)
                       <=> In(Marker, parser.lines[entry.line])

\* The lines of the text as the loop sees them.
Stripped == [k \in DOMAIN parser.lines |-> Strip(parser.lines[k])]

\* A section-boundary token, and a line that looks like the next tool name.
SectionBoundary(line) == line \in {<<tok>> : tok \in SectionTokens}
NextToolName(line) ==
    /\ \A k \in DOMAIN line : line[k] \in CapitalWords \cup {" "}
    /\ \E k \in DOMAIN line : line[k] \in UnderscoreWords
    /\ len(line) > 15

\* The first line that is a section boundary or a next tool name; one past
\* the last line when there is none.
StopLine ==
    LET stops == {k \in DOMAIN Stripped :
                     SectionBoundary(Stripped[k]) \/ NextToolName(Stripped[k])}
    IN  IF stops = {} THEN Len(Stripped) + 1
        ELSE CHOOSE k \in stops : \A l \in stops : k <= l

\* The lines before the stop that name a parameter.
NameLines ==
    LET stripped == Stripped
    IN  {k \in 1 .. StopLine - 1 :
            /\ stripped[k] # <<>>
            /\ ~IsType(stripped[k])
            /\ looks_like_param_name(stripped[k])}

\* For each line that names a parameter, the type tokens among the lines
\* up to the next such line or the stop.
TypeLines ==
    LET stripped == Stripped
        stop == StopLine
        names == NameLines
    IN  [k \in names |->
            {j \in k + 1 .. stop - 1 :
                /\ IsType(stripped[j])
                /\ \A l \in k + 1 .. j : l \notin names}]
Typed == {k \in DOMAIN TypeLines : TypeLines[k] # {}}

\* C28: a name line with no type token before the next name line is
\* dropped: the mapping holds exactly the typed name lines (per name, the
\* last one) and the required list exactly the marked typed name lines, in
\* order; each parameter's type is one of the six keywords, the first type
\* token after its name line, whatever type tokens follow.
C28_TypelessDroppedFirstTypeKept ==
    Parsed =>
        LET stripped == Stripped
            types == TypeLines
            typed == {k \in DOMAIN types : types[k] # {}}
            marked == SelectSeq([k \in DOMAIN stripped |-> k],
                                LAMBDA k : k \in typed
                                             /\ In(Marker, stripped[k]))
        IN  /\ {parser.parameters[k].line : k \in DOMAIN parser.parameters} =
                   {k \in typed :
                       \A l \in typed :
                           param_name_clean(stripped[l]) =
                               param_name_clean(stripped[k]) => l <= k}
            /\ \A k \in DOMAIN parser.parameters :
                  LET entry == parser.parameters[k]
                      first == CHOOSE j \in types[entry.line] :
                                   \A l \in types[entry.line] : j <= l
                  IN  /\ entry.name = param_name_clean(stripped[entry.line])
                      /\ entry.type = stripped[first]
                      /\ entry.type[1] \in TypeKeywords
            /\ parser.required_params =
                   [r \in DOMAIN marked |->
                        param_name_clean(stripped[marked[r]])]

\* A marked name without a type is followed by the same name with two type
\* tokens: the first type is kept and the name is not required.
C28_Witness ==
    /\ Parsed
    /\ parser.lines = << <<"paramA", Marker>>, <<"paramA">>, <<"string">>,
                         <<"integer">> >>
    /\ Mapping = << [name |-> <<"paramA">>, type |-> <<"string">>,
                     description |-> <<>>] >>
    /\ parser.required_params = <<>>

\* C29: the scan reads no line after the first section boundary or next
\* tool name: what is returned is what the text cut before that line
\* yields, and a parameter with name and type at that line is in it.
C29_ScanEndsAtFirstBoundary ==
    /\ parser # <<>> => parser.i <= StopLine
    /\ Parsed =>
          LET cut == parse_parameters(
                         BeforeLoop(SubSeq(parser.lines, 1, StopLine - 1),
                                    <<>>))
              names == NameLines
              typed == Typed
          IN  /\ parser.parameters = cut.parameters
              /\ parser.required_params = cut.required_params
              /\ \A k \in typed :
                    (\A l \in names : l <= k) =>
                        \E e \in DOMAIN parser.parameters :
                            parser.parameters[e].line = k

\* A parameter with name and type meets "Connect", a type token follows:
\* the parameter is returned with its type.
C29_Witness ==
    /\ Parsed
    /\ parser.lines = << <<"paramA", Marker>>, <<"string">>, <<"Connect">>,
                         <<"integer">> >>
    /\ parser.i = 3
    /\ Mapping = << [name |-> <<"paramA">>, type |-> <<"string">>,
                     description |-> <<>>] >>

\* The loop is about to read a line with a name and a type pending.
ReadingWithType ==
    /\ parser # <<>>
    /\ parser.at = "loop"
    /\ parser.i <= Len(parser.lines)
    /\ parser.current_param # <<>>
    /\ parser.param_type # <<>>

\* C30: with a name and a type pending, a non-empty line that starts no
\* parameter and does not end the scan is appended to the description, and
\* the description stored is the lines appended, joined by a space.
C30_EveryOtherLineAppended ==
    [][/\ ReadingWithType
          /\ Stripped[parser.i] # <<>>
          /\ ~SectionBoundary(Stripped[parser.i])
          /\ ~NextToolName(Stripped[parser.i])
          /\ parser'.param_line = parser.param_line
          => parser'.param_desc = Append(parser.param_desc,
                                         Stripped[parser.i])
       /\ Stores =>
             \E k \in DOMAIN parser'.parameters :
                 parser'.parameters[k].description =
                     Strip(join(parser.param_desc, " "))]_vars

\* C25 as stated: scrape_server_page never raises: whatever the renderer
\* does, a task that has navigated to its page gets a record back.
C25_ExtractorAlwaysReturnsRecord ==
    [][\A t \in Tasks :
           pc[t] = "page" /\ t \in DOMAIN pc' /\ pc'[t] # "page" =>
               pc'[t] = "got" /\ server_data'[t] # <<>>]_vars

\* The locks a task holds.
Held(t) ==
    {name \in {"stats", "wstats", "file"} :
        \/ name = "stats" /\ stats_lock = t
        \/ name = "wstats" /\ wstats_lock = t
        \/ name = "file" /\ file_write_lock = t}

\* C26: a lock is held by a task exactly while it is in the middle of its
\* one counter update or its one append, never by a task that navigates,
\* extracts or sleeps; no task holds two locks; the counters and the log change only in
\* a step of the task that holds their lock; and the holder of a lock can
\* always go on and release it, so no task waits for a lock for ever.
C26_LocksHeldForOneUpdate ==
    /\ [](\A t \in Tasks :
            /\ stats_lock = t <=> pc[t] \in {"counted", "exh"}
            /\ wstats_lock = t <=> pc[t] = "w_counted"
            /\ file_write_lock = t <=> pc[t] \in {"writing", "w_writing"}
            /\ Cardinality(Held(t)) <= 1)
    /\ [](/\ stats_lock # 0 =>
               ENABLED (Classify(stats_lock) \/ FailedReturn(stats_lock))
          /\ wstats_lock # 0 => ENABLED WrapperClassify(wstats_lock)
          /\ file_write_lock # 0 =>
               ENABLED (WriteLine(file_write_lock)
                          \/ WrapperWrite(file_write_lock)))
    /\ [][phase = "scraping" /\ phase' = "scraping" =>
            /\ stats' # stats =>
                  \E t \in Tasks : /\ pc'[t] # pc[t]
                                   /\ {stats_lock, stats_lock'} \subseteq {0, t}
                                   /\ t \in {stats_lock, stats_lock'}
            /\ wstats' # wstats =>
                  \E t \in Tasks : /\ pc'[t] # pc[t]
                                   /\ {wstats_lock, wstats_lock'} \subseteq {0, t}
                                   /\ t \in {wstats_lock, wstats_lock'}
            /\ jsonl' # jsonl =>
                  \E t \in Tasks : pc'[t] # pc[t] /\ file_write_lock = t]_vars

\* One worker is between two counter updates under the statistics lock
\* while another is appending under the log lock and none waits idle.
C26_Witness ==
    \E t, u \in Tasks :
        /\ t # u
        /\ stats_lock = t
        /\ pc[t] = "counted"
        /\ file_write_lock = u
        /\ pc[u] = "writing"

\* C27: while a run goes on no line of the log is changed or removed, and
\* a worker completing its append leaves its record as the last line, after
\* the records of all appends completed before.
C27_LogOrderedByCompletion ==
    [][phase = "scraping" /\ phase' = "scraping" =>
          LET old == SplitLines(jsonl, <<>>)
              new == SplitLines(jsonl', <<>>)
          IN  /\ Len(old) <= Len(new)
              /\ \A k \in DOMAIN old : new[k] = old[k]
              /\ \A t \in Writing :
                    pc'[t] # pc[t] =>
                        /\ Len(new) = Len(old) + 1
                        /\ Loads(new[Len(new)]) = server_data[t]
                        /\ server_data[t][1].server_url = urls[t]]_vars

\* The second URL of the input was appended before the first.
C27_Witness ==
    /\ phase = "scraping"
    /\ Len(urls) = 2
    /\ urls[1] # urls[2]
    /\ Len(Replay(jsonl)) = 2
    /\ Replay(jsonl)[1].server_url = urls[2]
    /\ Replay(jsonl)[2].server_url = urls[1]

\* C33: the sequential crawl of the checker ends: each turn fetches the page
\* after the last one fetched, no page above the safety limit is fetched,
\* and when the page at the limit still shows links the crawl is over with
\* "safety limit reached" as the last entry of the error list, on the page
\* after the limit.
C33_SequentialStopsAtSafetyLimit ==
    /\ [](/\ Len(pages) <= PageSafetyLimit
          /\ phase = "sequential" => Len(pages) < PageSafetyLimit
          /\ (/\ mode = "checker"
              /\ Len(pages) = PageSafetyLimit
              /\ pages[PageSafetyLimit] = "ok"
              /\ PageUrls(PageSafetyLimit) # {})
             => /\ phase = "done"
                /\ errors # <<>>
                /\ errors[Len(errors)] = PageSafetyLimit + 1)
    /\ [][phase = "sequential" =>
              /\ Len(pages') = Len(pages) + 1
              /\ phase' \in {"sequential", "done"}]_vars

\* Every page up to the limit showed links and no total was known: the
\* crawl is over after the page at the limit.
C33_Witness ==
    /\ mode = "checker"
    /\ phase = "done"
    /\ endless
    /\ indicator = 0
    /\ max_pages = 0
    /\ Len(pages) = PageSafetyLimit
    /\ \A n \in DOMAIN pages : pages[n] = "ok"
    /\ errors = <<PageSafetyLimit + 1>>
    /\ current_urls # <<>>

\* The total the discovery works with once page 1 is fetched, 0 for None.
KnownTotal ==
    IF max_pages # 0 THEN max_pages
    ELSE IF pages # <<>> /\ pages[1] = "ok" THEN indicator ELSE 0

\* C36: with a known total T above 1, no page is fetched before page 1 is
\* through, every page 2..T is taken by one worker and completed once, and
\* the list returned is the sorted union of the URLs the pages 1..T showed
\* when they loaded, whatever the order of completion and the worker count.
C36_ParallelDiscoveryIsSortedUnion ==
    /\ [](/\ phase = "parallel" =>
                /\ KnownTotal > 1
                /\ Len(pages) = KnownTotal
                /\ pages[1] \in {"ok", "failed"}
                /\ num_threads \in 1 .. MaxWorkers
                /\ Cardinality(Fetching) <= num_threads
          /\ (mode = "checker" /\ phase = "done" /\ KnownTotal > 1) =>
                /\ Len(pages) = KnownTotal
                /\ \A n \in DOMAIN pages : pages[n] \in {"ok", "failed"}
                /\ current_urls =
                      SortedUrls(UNION {IF pages[n] = "ok" THEN PageUrls(n)
                                        ELSE {} : n \in DOMAIN pages}))
    /\ [][phase = "parallel" =>
              \A n \in DOMAIN pages :
                  \/ pages'[n] = pages[n]
                  \/ pages[n] = "queued" /\ pages'[n] = "fetching"
                  \/ pages[n] = "fetching" /\ pages'[n] \in {"ok", "failed"}]_vars

\* Three pages were fetched by two workers, the last two showing different
\* URLs, and the list returned holds both.
C36_Witness ==
    /\ mode = "checker"
    /\ phase = "done"
    /\ indicator = 3
    /\ max_pages = 0
    /\ num_threads = 2
    /\ pages = <<"ok", "ok", "ok">>
    /\ Len(listing) = 3
    /\ listing[2] # listing[3]
    /\ current_urls = <<"s00", "s50">>

\* The tool extracted from the element k of tool page n.
Tool(n, k) == [page |-> n, element |-> k, clicked |-> TRUE]

\* C31: a click or a read that raises does not end the extraction: the loop
\* goes on with the next matched element and the list of tools is left as
\* it was, an element extracted without failure is appended, so that the
\* tools of the list stand in the order of their pages and elements.
C31_FailedToolSkippedOthersKept ==
    /\ [][(phase = "tools" /\ extractor.at = "elements"
             /\ ~MaxReached(extractor)) =>
              LET k == extractor.idx
                  n == extractor.tool_page_num
                  q == extractor'
              IN  /\ q.idx = k + 1
                  /\ q.tool_page_num = n
                  /\ q.at = IF k < ElementsOn(extractor, n)
                            THEN "elements" ELSE "next"
                  /\ q.tools = IF q.outcome = "ok"
                               THEN Append(extractor.tools, Tool(n, k))
                               ELSE extractor.tools]_vars
    /\ [](phase = "tools" =>
             \A i, j \in DOMAIN extractor.tools :
                 i < j =>
                     \/ extractor.tools[i].page < extractor.tools[j].page
                     \/ /\ extractor.tools[i].page = extractor.tools[j].page
                        /\ extractor.tools[i].element
                              < extractor.tools[j].element)

\* The first element of a page failed and the extractor returned the tool
\* of the second; on another page the last element failed after the first.
C31_Witness ==
    /\ phase = "tools"
    /\ extractor.at = "returned"
    /\ extractor.counts = <<2, 2>>
    /\ extractor.outcome = "read"
    /\ extractor.tools = <<Tool(1, 2), Tool(2, 1)>>

\* C32: with max_tools = m given, the list of tools never holds more than m
\* tools, whichever way the tools were found.
C32_NeverMoreThanMaxTools ==
    (phase = "tools" /\ extractor.max_tools # -1) =>
        Len(extractor.tools) <= extractor.max_tools

\* C34: the extractor goes to the tool pages one after the other and to no
\* page beyond the safety limit, also when every page links to a next one;
\* it returns at the first page that does not load even at the second
\* try, that holds no matched element, or that shows no link to a next
\* page.
C34_ToolPaginationStopsWithinLimit ==
    /\ [](phase = "tools" =>
             /\ extractor.navigated <= ToolPageLimit
             /\ extractor.tool_page_num <= ToolPageLimit + 1
             /\ extractor.at = "goto" =>
                   /\ extractor.tool_page_num <= ToolPageLimit
                   /\ extractor.navigated = extractor.tool_page_num - 1
             /\ extractor.at = "next" =>
                   extractor.navigated = extractor.tool_page_num)
    /\ [][(phase = "tools" /\ extractor.at = "goto") =>
              LET q == extractor'
                  n == extractor.tool_page_num
              IN  /\ q.navigated = extractor.navigated + 1
                  /\ q.tool_page_num = n
                  /\ (~q.loaded \/ ElementsOn(extractor, n) = 0)
                        => q.at = "returned"
                  /\ ~q.loaded => q.tools = extractor.tools]_vars
    /\ [][(phase = "tools" /\ extractor.at = "next") =>
              LET q == extractor'
                  n == extractor.tool_page_num
              IN  /\ q.navigated = extractor.navigated
                  /\ q.tools = extractor.tools
                  /\ q.tool_page_num \in {n, n + 1}
                  /\ ~NextLink(extractor, n) =>
                        q.at = "returned" /\ q.tool_page_num = n
                  /\ q.at = "goto" => q.tool_page_num = n + 1]_vars

\* Every tool page linked to a next one: the extractor returned after the
\* page at the limit.
C34_Witness ==
    /\ phase = "tools"
    /\ extractor.at = "returned"
    /\ extractor.more
    /\ extractor.loaded
    /\ extractor.navigated = ToolPageLimit
    /\ extractor.tool_page_num = ToolPageLimit + 1
    /\ extractor.tools # <<>>

\* C35: scrape_server_page calls the tool extractor once, whatever count the
\* page declares, and with no max_tools; a page declaring no count (or 0)
\* gets the number of tools extracted as its count, any other page keeps
\* the count it declares.
C35_ExtractorCalledOnceCountFromTools ==
    (phase = "tools" /\ extractor.caller = "page") =>
        /\ extractor.max_tools = -1
        /\ extractor.calls = IF extractor.at = "call" THEN 0 ELSE 1
        /\ extractor.at = "done" =>
              extractor.total_tools =
                  IF extractor.declared = 0 THEN Len(extractor.tools)
                  ELSE extractor.declared

\* The page declared no count, two tools were extracted, one by a click and
\* one from the text of the next page, and the record counts two.
C35_Witness ==
    /\ phase = "tools"
    /\ extractor.caller = "page"
    /\ extractor.at = "done"
    /\ extractor.declared = 0
    /\ extractor.calls = 1
    /\ Len(extractor.tools) = 2
    /\ extractor.tools[1].clicked
    /\ ~extractor.tools[2].clicked
    /\ extractor.total_tools = 2

\* C39: when the text of the page has been read for an element, that
\* element is the only one expanded.
C39_OnlyCurrentElementExpanded ==
    (/\ phase = "tools"
     /\ extractor.at \in {"elements", "next"}
     /\ extractor.outcome \in {"ok", "read"})
    => extractor.expanded = {extractor.idx - 1}

\* The outcome counters of a statistics record, added up.
Classified(st) == st.success + st.partial + st.failed

\* C37: whenever its lock is free the outcome counters of a statistics
\* record add up to its count of attempted URLs (scraped, completed), a step
\* counts at most one URL more, no count exceeds the number of input URLs,
\* and when the run is over every input URL has been counted.
C37_StatisticsAddUp ==
    /\ [](phase \in {"scraping", "done"} =>
             /\ stats_lock = 0 => Classified(stats) = stats.scraped
             /\ wstats_lock = 0 => Classified(wstats) = wstats.completed
             /\ stats.scraped <= Len(urls)
             /\ wstats.completed <= Len(urls)
             /\ phase = "done" =>
                   /\ stats_lock = 0
                   /\ wstats_lock = 0
                   /\ stats.scraped = Len(urls)
                   /\ mode \in {"missing", "problematic"} =>
                         wstats.completed = Len(urls))
    /\ [][(phase = "scraping" /\ phase' = "scraping") =>
              /\ stats'.scraped \in {stats.scraped, stats.scraped + 1}
              /\ wstats'.completed \in {wstats.completed, wstats.completed + 1}
              /\ Classified(stats') \in {Classified(stats), Classified(stats) + 1}
              /\ Classified(wstats')
                    \in {Classified(wstats), Classified(wstats) + 1}]_vars

\* Two workers are done with two URLs, one with all its tools and one with
\* none, and each URL is counted once in its class.
C37_Witness ==
    /\ mode = "main"
    /\ phase = "done"
    /\ num_threads = 2
    /\ Len(urls) = 2
    /\ stats.scraped = 2
    /\ stats.failed = 1
    /\ stats.success = 1
    /\ stats_lock = 0
    /\ Len(servers_data) = 2

Stops ==
    {k \in DOMAIN fallback.lines :
        /\ fallback.start_idx # 0
        /\ k > fallback.start_idx
        /\ fallback.lines[k] \in {<<"Connect">>, <<"Details">>, <<"Company">>,
                                  <<"Capabilities">>}}

\* C40: the text-fallback parser returns the empty list for a text without
\* a "Tools" line; each turn of its outer loop moves on by one line at
\* least or ends the scan, which never goes past the first Connect, Details,
\* Company or Capabilities line after the header and ends on that line or
\* at the end of the text; each record it holds has a name that is not
\* empty and a schema without properties.
C40_TextFallbackTerminatesWithSkeletons ==
    /\ [](phase = "fallback" =>
             LET stops == Stops
             IN  /\ fallback.i <= Len(fallback.lines) + 1
                 /\ (\A k \in DOMAIN fallback.lines :
                        fallback.lines[k] # <<"Tools">>)
                    => /\ fallback.tools = <<>>
                       /\ fallback.at \in {"start", "return"}
                 /\ \A k \in stops : fallback.i <= k
                 /\ (fallback.at = "return" /\ fallback.start_idx # 0) =>
                       \/ fallback.i \in stops
                       \/ stops = {} /\ fallback.i = Len(fallback.lines) + 1
                 /\ \A k \in DOMAIN fallback.tools :
                       /\ fallback.tools[k].name # <<>>
                       /\ fallback.tools[k].inputSchema
                             = [type |-> "object", properties |-> <<>>])
    /\ [][(phase = "fallback" /\ fallback.at = "scan") =>
              /\ fallback'.i > fallback.i \/ fallback'.at = "return"
              /\ fallback'.i >= fallback.i
              /\ Len(fallback'.tools) \in {Len(fallback.tools),
                                           Len(fallback.tools) + 1}]_vars

\* A header, a tool with a line of description, and the Connect line at
\* which the parser returned its one record.
C40_Witness ==
    /\ phase = "fallback"
    /\ fallback.at = "return"
    /\ fallback.lines = << <<"Tools">>, <<"GET_ISSUE">>, <<"optional">>,
                           <<"Connect">> >>
    /\ fallback.i = 4
    /\ Len(fallback.tools) = 1
    /\ fallback.tools[1].name = <<"GET_ISSUE">>
    /\ fallback.tools[1].description = <<"optional">>

====
